---- MODULE Spec2Model ----
(***************************************************************************)
(* A model of manage.py, the Glean custom datasource manager: the icon     *)
(* fallback chains of DatasourceSettings, the push path                    *)
(* (create_datasource) and its caller run_interactive_setup, against a     *)
(* remote store keyed by datasource id.                                    *)
(***************************************************************************)
EXTENDS Integers, Sequences, FiniteSets, TLC

VARIABLES
    settings,     \* the DatasourceSettings instance (env-driven, cached by get_settings)
    fs,           \* icon files of the working directory: existing file name -> bytes
    objFile,      \* object_types.json: its status and its objectTypes list
    qlFile,       \* quick_links.json: its status and its quicklinks list
    net,          \* what httpx.get answers per URL
    remote,       \* the remote store: datasource id -> record or NoRecord
    pc,           \* position of the run in run_interactive_setup / create_datasource
    silent,       \* --silent of the current run
    forceFlag,    \* --force of the current run
    existing,     \* what create_datasource's retrieve_config produced
    lightRes,     \* result of evaluating settings.icon_url
    darkRes,      \* result of evaluating settings.icon_dark_url
    payload,      \* keyword arguments prepared for datasources.add
    outcome,      \* how create_datasource ended: Created, Updated, Aborted, Failed
    returned,     \* the value create_datasource returned to its caller
    failure,      \* the exception create_datasource caught and logged, if any
    exitCode,     \* process exit status of the run
    before,       \* the remote record under settings.id when the run started
    calls,        \* remote and prompt calls made by the current run, in order
    hist,         \* one entry per finished run
    env,          \* the environment variables DatasourceSettings() is assembled from
    origin,       \* how settings came to be: from the environment or from the prompts
    reported,     \* the error lines a command logged about its configuration
    warnings,     \* what log_warning printed during the current run
    result,       \* the value a settings property or validator produced
    disk          \* files written by the pull path: file name -> content

vars == <<settings, fs, objFile, qlFile, net, remote, pc, silent, forceFlag, existing,
          lightRes, darkRes, payload, outcome, returned, failure,
          exitCode, before, calls, hist, env, origin, reported, warnings, result, disk>>

aux == <<env, origin, reported, result, disk>>

world == <<settings, fs, objFile, qlFile, net>>

-----------------------------------------------------------------------------
(* Bounds and value markers *)

MaxRuns == 2

None == "<None>"            \* Python None / unset optional
NotEvaluated == "<not-evaluated>"

\* Optional[...] values of the SDK models
Some(v) == [some |-> TRUE, v |-> v]
Nothing == [some |-> FALSE]

\* the remote store has nothing under an id; no keyword arguments prepared
NoRecord == [absent |-> TRUE]
NoPayload == [prepared |-> FALSE]

-----------------------------------------------------------------------------
(* base64.b64encode over byte sequences; symbols 0..63, 64 is the pad '='  *)

B64Pad == 64

RECURSIVE b64encode(_)
b64encode(bs) ==
    IF Len(bs) = 0 THEN <<>>
    ELSE IF Len(bs) = 1 THEN
        <<bs[1] \div 4, (bs[1] % 4) * 16, B64Pad, B64Pad>>
    ELSE IF Len(bs) = 2 THEN
        <<bs[1] \div 4, (bs[1] % 4) * 16 + bs[2] \div 16, (bs[2] % 16) * 4, B64Pad>>
    ELSE
        <<bs[1] \div 4, (bs[1] % 4) * 16 + bs[2] \div 16,
          (bs[2] % 16) * 4 + bs[3] \div 64, bs[3] % 64>>
        \o b64encode(SubSeq(bs, 4, Len(bs)))

-----------------------------------------------------------------------------
(* Files, URLs and their textual properties *)

PngBytes == <<137, 80, 78>>
SvgBytes == <<60, 115>>
AltBytes == <<255>>
EmptyBytes == <<>>

DefaultLight == "icon-lightmode.png"
DefaultDark == "icon-darkmode.png"

IconFiles == {"logo.png", "LOGO.SVG", "logo.jpg", "dark.png", DefaultLight, DefaultDark}

\* Path(file).suffix.lower()
Suffix(file) ==
    CASE file = "logo.png" -> ".png"
      [] file = "LOGO.SVG" -> ".svg"
      [] file = "logo.jpg" -> ".jpg"
      [] file = "dark.png" -> ".png"
      [] file = "gone.png" -> ".png"
      [] file = DefaultLight -> ".png"
      [] file = DefaultDark -> ".png"
      [] file = "icon-lightmode.svg" -> ".svg"
      [] file = "icon-darkmode.svg" -> ".svg"

IconUrls == {"https://cdn/i.svg", "https://cdn/i.png", "https://cdn/icon", "https://cdn/dark"}

\* url.lower().endswith(".svg")
UrlEndsWithSvg(url) == url = "https://cdn/i.svg"

\* "svg" in content_type, "png" in content_type
ContainsSvg(ct) == ct = "image/svg+xml"
ContainsPng(ct) == ct = "image/png"

\* Python truthiness of an optional string setting
Truthy(v) == v # None /\ v # ""

\* f"data:{mime};base64,{b64}"
DataUrl(mime, b64) == [mime |-> mime, b64 |-> b64]
NoData == DataUrl(None, <<>>)

\* a property either returns a value or raises ValueError(err about ...); trace lists
\* the file-system and network accesses it made
Ok(v, tr) == [ok |-> TRUE, val |-> v, err |-> None, about |-> None, trace |-> tr]
Err(e, a, tr) == [ok |-> FALSE, val |-> NoData, err |-> e, about |-> a, trace |-> tr]
Unevaluated == Err(NotEvaluated, None, <<>>)

-----------------------------------------------------------------------------
(* get_icon_as_data_url, download_icon *)

mime_types(suffix) ==
    CASE suffix = ".png" -> "image/png"
      [] suffix = ".svg" -> "image/svg+xml"
      [] OTHER -> None

get_icon_as_data_url(file, tr) ==
    IF mime_types(Suffix(file)) = None
    THEN Err("Unsupported image format", Suffix(file), tr)
    ELSE Ok(DataUrl(mime_types(Suffix(file)), b64encode(fs[file])),
            Append(tr, <<"open", file>>))

download_icon(url, tr) ==
    LET resp == net[url]
        tr2 == Append(tr, <<"get", url>>)
        mime == IF ContainsSvg(resp.ctype) THEN "image/svg+xml"
                ELSE IF ContainsPng(resp.ctype) THEN "image/png"
                ELSE IF UrlEndsWithSvg(url) THEN "image/svg+xml"
                ELSE "image/png"
    IN  IF ~resp.ok
        THEN Err("Failed to download icon from", url, tr2)
        ELSE Ok(DataUrl(mime, b64encode(resp.body)), tr2)

\* Path(file).exists()
Exists(file) == file \in DOMAIN fs

-----------------------------------------------------------------------------
(* DatasourceSettings.icon_url and DatasourceSettings.icon_dark_url *)

\* the light chain with a missing explicit file skipped instead of raising
icon_url_from_FallsThrough(tr0) ==
    LET f == settings.icon_filename_lightmode
        tr == IF Truthy(f) THEN Append(tr0, <<"exists", f>>) ELSE tr0
    IN  IF Truthy(f) /\ Exists(f) THEN get_icon_as_data_url(f, tr)
        ELSE IF Truthy(settings.icon_url_lightmode) THEN
            download_icon(settings.icon_url_lightmode, tr)
        ELSE IF Exists(DefaultLight) THEN
            get_icon_as_data_url(DefaultLight, Append(tr, <<"exists", DefaultLight>>))
        ELSE Err("No light mode icon found", "three options",
                 Append(tr, <<"exists", DefaultLight>>))

\* the light chain with the explicit URL consulted before the explicit file
icon_url_from_UrlFirst(tr0) ==
    IF Truthy(settings.icon_url_lightmode) THEN
        download_icon(settings.icon_url_lightmode, tr0)
    ELSE IF Truthy(settings.icon_filename_lightmode) THEN
        LET f == settings.icon_filename_lightmode
            tr == Append(tr0, <<"exists", f>>)
        IN  IF Exists(f) THEN get_icon_as_data_url(f, tr)
            ELSE Err("Icon file not found", f, tr)
    ELSE
        LET tr == Append(tr0, <<"exists", DefaultLight>>)
        IN  IF Exists(DefaultLight) THEN get_icon_as_data_url(DefaultLight, tr)
            ELSE Err("No light mode icon found", "three options", tr)

\* lines 339-360, the accesses made so far passed in
icon_url_from(tr0) ==
    IF Truthy(settings.icon_filename_lightmode) THEN
        LET f == settings.icon_filename_lightmode
            tr == Append(tr0, <<"exists", f>>)
        IN  IF Exists(f) THEN get_icon_as_data_url(f, tr)
            ELSE Err("Icon file not found", f, tr)
    ELSE IF Truthy(settings.icon_url_lightmode) THEN
        download_icon(settings.icon_url_lightmode, tr0)
    ELSE
        LET tr == Append(tr0, <<"exists", DefaultLight>>)
        IN  IF Exists(DefaultLight) THEN get_icon_as_data_url(DefaultLight, tr)
            ELSE Err("No light mode icon found", "three options", tr)

icon_url == icon_url_from(<<>>)

\* the dark fallback reading only the default-named light file
icon_dark_fallback_DefaultOnly(tr) ==
    LET tr2 == Append(tr, <<"exists", DefaultLight>>)
    IN  IF Exists(DefaultLight) THEN get_icon_as_data_url(DefaultLight, tr2)
        ELSE Err("No dark mode icon found", "three options", tr2)

\* lines 382-393: fall back to the light icon, re-raising with dark-mode context
icon_dark_fallback(tr) ==
    LET light == icon_url_from(tr)
    IN  IF light.ok THEN light
        ELSE Err("No dark mode icon found", "three options", light.trace)

icon_dark_url ==
    IF Truthy(settings.icon_filename_darkmode) THEN
        LET f == settings.icon_filename_darkmode
            tr == <<<<"exists", f>>>>
        IN  IF Exists(f) THEN get_icon_as_data_url(f, tr)
            ELSE Err("Icon file not found", f, tr)
    ELSE IF Truthy(settings.icon_url_darkmode) THEN
        download_icon(settings.icon_url_darkmode, <<>>)
    ELSE
        LET tr == <<<<"exists", DefaultDark>>>>
        IN  IF Exists(DefaultDark) THEN get_icon_as_data_url(DefaultDark, tr)
            ELSE icon_dark_fallback(tr)

-----------------------------------------------------------------------------
(* DatasourceSettings.url_regex and DatasourceSettings.suggestion_text;     *)
(* texts are sequences of tokens so that stripping and appending are real   *)

RECURSIVE RstripSlash(_)
RstripSlash(t) ==
    IF Len(t) > 0 /\ t[Len(t)] = "/" THEN RstripSlash(SubSeq(t, 1, Len(t) - 1)) ELSE t

\* truthiness of an optional text (None and "" are both the empty text)
TruthyText(t) == t # <<>>

\* urlparse(home_url): scheme and netloc; a URL text starts with that token
SchemeAndHost(u) == <<u[1]>>

\* the default pattern built from the scheme and host alone
url_regex_SchemeHost ==
    IF TruthyText(settings.url_regex) THEN settings.url_regex
    ELSE SchemeAndHost(settings.home_url) \o <<"/.*">>

url_regex ==
    IF TruthyText(settings.url_regex) THEN settings.url_regex
    ELSE RstripSlash(settings.home_url) \o <<"/.*">>

suggestion_text ==
    IF TruthyText(settings.suggestion_text) THEN settings.suggestion_text
    ELSE <<"Search for anything in ">> \o settings.display_name \o <<"...">>

-----------------------------------------------------------------------------
(* Categories and the SDK enum maps *)

DatasourceCategory ==
    {"KNOWLEDGE_HUB", "PUBLISHED_CONTENT", "COLLABORATIVE_CONTENT", "QUESTION_ANSWER",
     "TICKETS", "CODE_REPOSITORY", "CHANGE_MANAGEMENT", "EMAIL", "MESSAGING", "CRM",
     "SSO", "ATS", "PEOPLE", "EXTERNAL_SHORTCUT", "UNCATEGORIZED"}

\* members of the SDK enums DocCategory and GleanDatasourceCategory
DocCategory(tag) == <<"DocCategory", tag>>
GleanDatasourceCategory(tag) == <<"DatasourceCategory", tag>>

\* the lookup without its default: the tag is passed on as it is
DOCUMENT_CATEGORY_MAP_get_NoDefault(key) == DocCategory(key)

\* DOCUMENT_CATEGORY_MAP.get(key, DocCategory.KNOWLEDGE_HUB)
DOCUMENT_CATEGORY_MAP_get(key) ==
    IF key \in DatasourceCategory THEN DocCategory(key) ELSE DocCategory("KNOWLEDGE_HUB")

\* DATASOURCE_CATEGORY_MAP.get(key, GleanDatasourceCategory.KNOWLEDGE_HUB)
DATASOURCE_CATEGORY_MAP_get(key) ==
    IF key \in DatasourceCategory THEN GleanDatasourceCategory(key)
    ELSE GleanDatasourceCategory("KNOWLEDGE_HUB")

-----------------------------------------------------------------------------
(* load_object_definitions, load_quick_links and the payload translation *)

\* a JSON file: status is "absent", "unparsable" or "ok"; a JSON object carries the
\* set of keys it has
JsonFile(status, items) == [status |-> status, items |-> items]

load_object_definitions == IF objFile.status = "ok" THEN objFile.items ELSE <<>>

load_quick_links == IF qlFile.status = "ok" THEN qlFile.items ELSE <<>>

\* a warning logged for a missing file as well
LoadWarnings_AlsoMissing ==
    {[msg |-> "Failed to load", file |-> f] :
        f \in {g \in {"object_types.json", "quick_links.json"} :
                  \/ g = "object_types.json" /\ objFile.status # "ok"
                  \/ g = "quick_links.json" /\ qlFile.status # "ok"}}

\* a warning is logged only for a file that exists and fails to parse
LoadWarnings ==
    {[msg |-> "Failed to load", file |-> f] :
        f \in {g \in {"object_types.json", "quick_links.json"} :
                  \/ g = "object_types.json" /\ objFile.status = "unparsable"
                  \/ g = "quick_links.json" /\ qlFile.status = "unparsable"}}

\* dict.get(key, default)
Get(obj, key, default) == IF key \in obj.keys THEN obj[key] ELSE default

\* models.ObjectDefinition(...) of line 742
ObjectDefinitionOf(obj) ==
    [name |-> obj.name,
     display_label |-> Get(obj, "display_label", obj.name),
     doc_category |-> DOCUMENT_CATEGORY_MAP_get(Get(obj, "doc_category", "KNOWLEDGE_HUB")),
     property_definitions |->
         IF "property_definitions" \in obj.keys THEN Some(obj.property_definitions)
         ELSE Nothing,
     property_groups |->
         IF "property_groups" \in obj.keys THEN Some(obj.property_groups) ELSE Nothing,
     summarizable |-> Get(obj, "summarizable", FALSE)]

\* obj["name"] raises KeyError when the key is missing
ObjectDefsRaise == \E i \in DOMAIN load_object_definitions :
                       "name" \notin load_object_definitions[i].keys

object_defs == [i \in DOMAIN load_object_definitions |->
                    ObjectDefinitionOf(load_object_definitions[i])]

IconConfigKeys == {"generated_background_color_key", "background_color", "color", "key",
                   "icon_type", "masked", "name", "url"}

\* lines 755-761: the icon_config is passed on when present, non-empty and holding at
\* least one known key
IconConfigOf(ql) ==
    IF "icon_config" \in ql.keys /\ ql.icon_config.keys # {}
          /\ ql.icon_config.keys \cap IconConfigKeys # {}
    THEN Some([ql.icon_config EXCEPT !.keys = @ \cap IconConfigKeys])
    ELSE Nothing

QuicklinkOf(ql) ==
    [name |-> Get(ql, "name", None),
     short_name |-> Get(ql, "short_name", None),
     url |-> Get(ql, "url", None),
     id |-> Get(ql, "id", None),
     icon_config |-> IconConfigOf(ql),
     scopes |-> IF "scopes" \in ql.keys /\ ql.scopes # <<>> THEN Some(ql.scopes)
                ELSE Nothing]

quicklinks == [i \in DOMAIN load_quick_links |-> QuicklinkOf(load_quick_links[i])]

\* the upsert addressed by an id other than the configured one
add_name_Other == CHOOSE i \in {"ds-a", "ds-b"} : i # settings.id

\* line 776: the id the upsert writes under
add_name == settings.id

\* the three flags taken from the local configuration
PlatformFlags_FromSettings ==
    [trust_url_regex_for_view_activity |-> settings.user_referenced_by_email,
     strip_fragment_in_canonical_url |-> TRUE,
     is_entity_datasource |-> settings.is_test_mode]

\* lines 788-790: the three flags the upsert always sends
PlatformFlags ==
    [trust_url_regex_for_view_activity |-> TRUE,
     strip_fragment_in_canonical_url |-> TRUE,
     is_entity_datasource |-> FALSE]

\* the keyword arguments of glean.indexing.datasources.add
AddArguments(light, dark) ==
    [name |-> add_name,
     display_name |-> settings.display_name,
     datasource_category |-> DATASOURCE_CATEGORY_MAP_get(settings.category),
     url_regex |-> url_regex,
     icon_url |-> light,
     icon_dark_url |-> dark,
     home_url |-> settings.home_url,
     suggestion_text |-> suggestion_text,
     object_definitions |-> IF object_defs # <<>> THEN Some(object_defs) ELSE Nothing,
     quicklinks |-> IF quicklinks # <<>> THEN Some(quicklinks) ELSE Nothing,
     is_user_referenced_by_email |-> settings.user_referenced_by_email,
     is_test_datasource |-> settings.is_test_mode,
     trust_url_regex_for_view_activity |-> PlatformFlags.trust_url_regex_for_view_activity,
     strip_fragment_in_canonical_url |-> PlatformFlags.strip_fragment_in_canonical_url,
     is_entity_datasource |-> PlatformFlags.is_entity_datasource]

-----------------------------------------------------------------------------
(* The remote API: retrieve_config and add (the upsert), keyed by id *)

Ids == {"ds-a", "ds-b"}

Found(rec) == [kind |-> "record", rec |-> rec]
Raised == [kind |-> "raised"]
ReturnedNone == [kind |-> "none"]

\* retrieve_config(datasource=id): the record, or an error (absence is signalled by an
\* error; a transport error can hide an existing record), or an empty answer
RetrieveOutcomes(id) ==
    IF remote[id] # NoRecord THEN {Found(remote[id]), Raised}
    ELSE {Raised, ReturnedNone}

\* how the call log names an outcome of retrieve_config
RetrieveTag(id, out) ==
    IF out.kind # "raised" THEN out.kind
    ELSE IF remote[id] # NoRecord THEN "fault" ELSE "not-found"

\* `if existing:`
ExistingTruthy(out) == out.kind = "record"

-----------------------------------------------------------------------------
(* run_interactive_setup and create_datasource, one action per step between *)
(* two external calls                                                       *)

PromptAnswers == {"yes", "no", "error"}

\* create_datasource(settings, force=force) in silent mode, create_datasource(settings)
\* in interactive mode
pushForce == IF silent THEN forceFlag ELSE FALSE

NoFailure == [err |-> None, about |-> None]

\* no remote call of the run failed on a working remote: no retrieval hid an existing
\* record and no upsert raised
Clean(cs) == \A i \in DOMAIN cs : cs[i][3] \notin {"fault", "raised"}

HistEntry(code, cs) ==
    [force |-> pushForce, outcome |-> outcome, returned |-> returned,
     before |-> before, after |-> remote[settings.id], clean |-> Clean(cs)]

\* sys.exit(code), or falling off the end of the command (code 0)
Exit(code, cs) ==
    /\ pc' = "exited"
    /\ exitCode' = code
    /\ hist' = Append(hist, HistEntry(code, cs))

StartRun(s, f) ==
    /\ pc \in {"idle", "exited"}
    /\ Len(hist) < MaxRuns
    /\ silent' = s
    /\ forceFlag' = f
    /\ pc' = IF s THEN "precheck" ELSE "proceed"
    /\ existing' = ReturnedNone
    /\ lightRes' = Unevaluated
    /\ darkRes' = Unevaluated
    /\ payload' = NoPayload
    /\ outcome' = "NotCalled"
    /\ returned' = FALSE
    /\ failure' = NoFailure
    /\ exitCode' = 0
    /\ before' = remote[settings.id]
    /\ calls' = <<>>
    /\ warnings' = LoadWarnings
    /\ UNCHANGED <<world, aux, remote, hist>>

\* the pre-check going on to the push whatever it found
SilentPreCheck_NeverExits(out) ==
    /\ pc = "precheck"
    /\ out \in RetrieveOutcomes(settings.id)
    /\ calls' = Append(calls, <<"retrieve_config", settings.id, RetrieveTag(settings.id, out)>>)
    /\ pc' = "check"
    /\ UNCHANGED <<world, aux, warnings, remote, silent, forceFlag, existing, lightRes, darkRes,
                   payload, outcome, returned, failure, exitCode, before, hist>>

\* lines 1069-1083: the silent-mode pre-check
SilentPreCheck(out) ==
    /\ pc = "precheck"
    /\ out \in RetrieveOutcomes(settings.id)
    /\ calls' = Append(calls, <<"retrieve_config", settings.id, RetrieveTag(settings.id, out)>>)
    /\ IF ExistingTruthy(out) /\ ~forceFlag
       THEN /\ Exit(1, calls')
            /\ UNCHANGED <<world, aux, warnings, remote, silent, forceFlag, existing, lightRes, darkRes,
                           payload, outcome, returned, failure, before>>
       ELSE /\ pc' = "check"
            /\ UNCHANGED <<world, aux, warnings, remote, silent, forceFlag, existing, lightRes, darkRes,
                           payload, outcome, returned, failure, exitCode, before, hist>>

\* lines 1118-1126 and 1131-1133: "Proceed with creating the datasource?"
ProceedPrompt(ans) ==
    /\ pc = "proceed"
    /\ calls' = Append(calls, <<"confirm_proceed", settings.id, ans>>)
    /\ IF ans = "yes"
       THEN /\ pc' = "check"
            /\ UNCHANGED <<exitCode, hist>>
       ELSE Exit(IF ans = "no" THEN 0 ELSE 1, calls')
    /\ UNCHANGED <<world, aux, warnings, remote, silent, forceFlag, existing, lightRes, darkRes,
                   payload, outcome, returned, failure, before>>

\* the existence check with a retrieval error reported as a failure of the push
CheckExistence_FailsOnError(out) ==
    /\ pc = "check"
    /\ out \in RetrieveOutcomes(settings.id)
    /\ existing' = out
    /\ calls' = Append(calls, <<"retrieve_config", settings.id, RetrieveTag(settings.id, out)>>)
    /\ IF out.kind = "raised"
       THEN /\ outcome' = "Failed"
            /\ failure' = [err |-> "retrieve_config raised", about |-> settings.id]
            /\ pc' = "returned"
       ELSE /\ outcome' = "Running"
            /\ pc' = IF ExistingTruthy(out) /\ ~pushForce THEN "confirm" ELSE "prepare"
            /\ UNCHANGED failure
    /\ UNCHANGED <<world, aux, warnings, remote, silent, forceFlag, lightRes, darkRes, payload,
                   returned, exitCode, before, hist>>

\* lines 721-727: the existence check of create_datasource
CheckExistence(out) ==
    /\ pc = "check"
    /\ out \in RetrieveOutcomes(settings.id)
    /\ existing' = out
    /\ outcome' = "Running"
    /\ calls' = Append(calls, <<"retrieve_config", settings.id, RetrieveTag(settings.id, out)>>)
    /\ pc' = IF ExistingTruthy(out) /\ ~pushForce THEN "confirm" ELSE "prepare"
    /\ UNCHANGED <<world, aux, warnings, remote, silent, forceFlag, lightRes, darkRes, payload,
                   returned, failure, exitCode, before, hist>>

\* the overwrite confirmation with its answer ignored
ConfirmOverwrite_IgnoresNo(ans) ==
    /\ pc = "confirm"
    /\ calls' = Append(calls, <<"confirm_overwrite", settings.id, ans>>)
    /\ pc' = "prepare"
    /\ UNCHANGED <<world, aux, warnings, remote, silent, forceFlag, existing, lightRes, darkRes,
                   payload, outcome, returned, failure, exitCode, before, hist>>

\* lines 728-733: the overwrite confirmation; an error raised by the prompt is caught
\* by the same `except Exception: pass` as a retrieval error
ConfirmOverwrite(ans) ==
    /\ pc = "confirm"
    /\ calls' = Append(calls, <<"confirm_overwrite", settings.id, ans>>)
    /\ IF ans = "no"
       THEN /\ outcome' = "Aborted"
            /\ returned' = FALSE
            /\ pc' = "returned"
       ELSE /\ pc' = "prepare"
            /\ UNCHANGED <<outcome, returned>>
    /\ UNCHANGED <<world, aux, warnings, remote, silent, forceFlag, existing, lightRes, darkRes,
                   payload, failure, exitCode, before, hist>>

\* what evaluating the arguments of lines 735-791 raises, if anything
PrepareFailure ==
    IF ObjectDefsRaise THEN [err |-> "KeyError", about |-> "name"]
    ELSE IF ~icon_url.ok THEN [err |-> icon_url.err, about |-> icon_url.about]
    ELSE IF ~icon_dark_url.ok THEN [err |-> icon_dark_url.err, about |-> icon_dark_url.about]
    ELSE NoFailure

\* the preparation sending the payload with whatever the icon properties produced
Prepare_SendsWithoutIcon ==
    /\ pc = "prepare"
    /\ lightRes' = IF ObjectDefsRaise THEN Unevaluated ELSE icon_url
    /\ darkRes' = IF ObjectDefsRaise \/ ~icon_url.ok THEN Unevaluated ELSE icon_dark_url
    /\ IF ObjectDefsRaise
       THEN /\ failure' = PrepareFailure
            /\ outcome' = "Failed"
            /\ returned' = FALSE
            /\ pc' = "returned"
            /\ UNCHANGED payload
       ELSE /\ payload' = AddArguments(icon_url.val, icon_dark_url.val)
            /\ pc' = "upsert"
            /\ UNCHANGED <<failure, outcome, returned>>
    /\ warnings' = warnings \cup LoadWarnings
    /\ UNCHANGED <<world, aux, remote, silent, forceFlag, existing, exitCode, before, calls,
                   hist>>

\* lines 735-791 up to the call: object definitions, quick links, category, icons
Prepare ==
    /\ pc = "prepare"
    /\ lightRes' = IF ObjectDefsRaise THEN Unevaluated ELSE icon_url
    /\ darkRes' = IF ObjectDefsRaise \/ ~icon_url.ok THEN Unevaluated ELSE icon_dark_url
    /\ IF PrepareFailure # NoFailure
       THEN /\ failure' = PrepareFailure
            /\ outcome' = "Failed"
            /\ returned' = FALSE
            /\ pc' = "returned"
            /\ UNCHANGED payload
       ELSE /\ payload' = AddArguments(icon_url.val, icon_dark_url.val)
            /\ pc' = "upsert"
            /\ UNCHANGED <<failure, outcome, returned>>
    /\ warnings' = warnings \cup LoadWarnings
    /\ UNCHANGED <<world, aux, remote, silent, forceFlag, existing, exitCode, before, calls,
                   hist>>

\* the upsert against a create-only remote call: it raises when a record exists
Upsert_CreateOnly(raises) ==
    /\ pc = "upsert"
    /\ LET fails == raises \/ remote[payload.name] # NoRecord
       IN  /\ calls' = Append(calls, <<"add", payload.name, IF raises THEN "raised" ELSE "ok">>)
           /\ IF fails
              THEN /\ failure' = [err |-> "add raised", about |-> payload.name]
                   /\ outcome' = "Failed"
                   /\ returned' = FALSE
                   /\ UNCHANGED remote
              ELSE /\ remote' = [remote EXCEPT ![payload.name] = payload]
                   /\ outcome' = IF ExistingTruthy(existing) THEN "Updated" ELSE "Created"
                   /\ returned' = TRUE
                   /\ UNCHANGED failure
    /\ pc' = "returned"
    /\ UNCHANGED <<world, aux, warnings, silent, forceFlag, existing, lightRes, darkRes, payload,
                   exitCode, before, hist>>

\* the upsert retried after a failure instead of returning
Upsert_Retries(raises) ==
    /\ pc = "upsert"
    /\ Len(calls) < 6
    /\ calls' = Append(calls, <<"add", payload.name, IF raises THEN "raised" ELSE "ok">>)
    /\ IF raises
       THEN /\ pc' = "upsert"
            /\ UNCHANGED <<remote, outcome, returned, failure>>
       ELSE /\ remote' = [remote EXCEPT ![payload.name] = payload]
            /\ outcome' = IF ExistingTruthy(existing) THEN "Updated" ELSE "Created"
            /\ returned' = TRUE
            /\ pc' = "returned"
            /\ UNCHANGED failure
    /\ UNCHANGED <<world, aux, warnings, silent, forceFlag, existing, lightRes, darkRes, payload,
                   exitCode, before, hist>>

\* lines 775-808: the upsert call and what follows it
Upsert(raises) ==
    /\ pc = "upsert"
    /\ calls' = Append(calls, <<"add", payload.name, IF raises THEN "raised" ELSE "ok">>)
    /\ IF raises
       THEN /\ failure' = [err |-> "add raised", about |-> payload.name]
            /\ outcome' = "Failed"
            /\ returned' = FALSE
            /\ UNCHANGED remote
       ELSE /\ remote' = [remote EXCEPT ![payload.name] = payload]
            /\ outcome' = IF ExistingTruthy(existing) THEN "Updated" ELSE "Created"
            /\ returned' = TRUE
            /\ UNCHANGED failure
    /\ pc' = "returned"
    /\ UNCHANGED <<world, aux, warnings, silent, forceFlag, existing, lightRes, darkRes, payload,
                   exitCode, before, hist>>

\* lines 1085-1089 and 1120-1124: the caller's handling of the returned value
CallerHandlesResult ==
    /\ pc = "returned"
    /\ Exit(IF returned THEN 0 ELSE 1, calls)
    /\ UNCHANGED <<world, aux, warnings, remote, silent, forceFlag, existing, lightRes, darkRes,
                   payload, outcome, returned, failure, before, calls>>

-----------------------------------------------------------------------------
(* Initial states: a validated configuration, a working directory, the      *)
(* network and the remote store                                             *)

BytesOf(file) ==
    CASE file = "logo.png" -> PngBytes
      [] file = "LOGO.SVG" -> SvgBytes
      [] file = "logo.jpg" -> AltBytes
      [] file = "dark.png" -> AltBytes
      [] file = DefaultLight -> EmptyBytes
      [] file = DefaultDark -> SvgBytes

FsWith(files) == [f \in files |-> BytesOf(f)]

Response(ok, ctype, body) == [ok |-> ok, ctype |-> ctype, body |-> body]
Down == Response(FALSE, "", <<>>)

\* every URL answers, with a content type that names its format or not
NetUp == [u \in IconUrls |->
            CASE u = "https://cdn/i.svg" -> Response(TRUE, "text/html", SvgBytes)
              [] u = "https://cdn/i.png" -> Response(TRUE, "image/png", PngBytes)
              [] u = "https://cdn/icon" -> Response(TRUE, "image/svg+xml", SvgBytes)
              [] u = "https://cdn/dark" -> Response(TRUE, "", AltBytes)]

NetDarkDown == [NetUp EXCEPT !["https://cdn/dark"] = Down]
NetAllDown == [u \in IconUrls |-> Down]

TicketObject ==
    [keys |-> {"name", "doc_category", "summarizable"}, name |-> "ticket",
     display_label |-> "", doc_category |-> "TICKETS", summarizable |-> TRUE,
     property_definitions |-> <<>>, property_groups |-> <<>>]

\* an object definition of an unknown category and without optional keys
BareObject == [TicketObject EXCEPT !.keys = {"name", "doc_category"},
                                   !.name = "page", !.doc_category = "WIKI"]

NamelessObject == [TicketObject EXCEPT !.keys = {"doc_category"}]

GlyphIcon == [keys |-> {"icon_type", "name", "tooltip"}, icon_type |-> "GLYPH",
              name |-> "plus-circle"]

NewIssueLink ==
    [keys |-> {"name", "url", "id", "icon_config", "scopes"}, name |-> "Create New Issue",
     short_name |-> "", url |-> "https://app/create", id |-> "create-issue",
     icon_config |-> GlyphIcon, scopes |-> <<"APP_CARD">>]

\* the record some earlier configuration left under an id
OldRecord(id) ==
    [name |-> id,
     display_name |-> <<"Old App">>,
     datasource_category |-> GleanDatasourceCategory("CRM"),
     url_regex |-> <<"https://old.example.com", "/.*">>,
     icon_url |-> DataUrl("image/png", b64encode(AltBytes)),
     icon_dark_url |-> DataUrl("image/png", b64encode(AltBytes)),
     home_url |-> <<"https://old.example.com">>,
     suggestion_text |-> <<"Search the old app">>,
     object_definitions |-> Nothing,
     quicklinks |-> Nothing,
     is_user_referenced_by_email |-> FALSE,
     is_test_datasource |-> FALSE,
     trust_url_regex_for_view_activity |-> FALSE,
     strip_fragment_in_canonical_url |-> FALSE,
     is_entity_datasource |-> TRUE]

BaseSettings(id, cat, lf, lu, df, du, flag) ==
    [id |-> id,
     display_name |-> <<"My App">>,
     category |-> cat,
     home_url |-> <<"https://app.example.com", "/", "dash", "/">>,
     url_regex |-> <<>>,
     suggestion_text |-> <<>>,
     icon_filename_lightmode |-> lf,
     icon_url_lightmode |-> lu,
     icon_filename_darkmode |-> df,
     icon_url_darkmode |-> du,
     user_referenced_by_email |-> flag,
     is_test_mode |-> ~flag,
     test_user_emails |-> <<>>]

\* explicit light file and explicit light URL of the push scenarios
LightChoices == {<<None, None>>, <<None, "https://cdn/i.svg">>,
                 <<"gone.png", "https://cdn/i.svg">>, <<"logo.png", None>>}

InitRun ==
    /\ pc = "idle"
    /\ silent = FALSE
    /\ forceFlag = FALSE
    /\ existing = ReturnedNone
    /\ lightRes = Unevaluated
    /\ darkRes = Unevaluated
    /\ payload = NoPayload
    /\ outcome = "NotCalled"
    /\ returned = FALSE
    /\ failure = NoFailure
    /\ exitCode = 0
    /\ before = remote[settings.id]
    /\ calls = <<>>
    /\ hist = <<>>

\* nothing assembled from an environment, logged or written yet
NoEnv == [names |-> {}]
NoOutput == [kind |-> "none"]

InitIdle ==
    /\ env = NoEnv
    /\ origin = "env"
    /\ reported = {}
    /\ warnings = {}
    /\ result = NoOutput
    /\ disk = <<>>

Init ==
    /\ \E id \in Ids, light \in LightChoices, du \in {None, "https://cdn/dark"},
          flag \in BOOLEAN :
            settings = BaseSettings(id, "PEOPLE", light[1], light[2], None, du, flag)
    /\ fs = FsWith({"logo.png", DefaultLight})
    /\ net = NetDarkDown
    /\ objFile \in {JsonFile("ok", <<TicketObject, BareObject>>),
                    JsonFile("ok", <<NamelessObject>>)}
    /\ qlFile = JsonFile("ok", <<NewIssueLink>>)
    /\ remote \in [Ids -> {NoRecord}] \cup {[i \in Ids |-> OldRecord(i)]}
    /\ InitRun
    /\ InitIdle

Next ==
    \/ \E s \in BOOLEAN, f \in BOOLEAN : StartRun(s, f)
    \/ \E out \in {Raised, ReturnedNone} \cup {Found(remote[i]) : i \in Ids} :
           SilentPreCheck(out)
    \/ \E ans \in PromptAnswers : ProceedPrompt(ans)
    \/ \E out \in {Raised, ReturnedNone} \cup {Found(remote[i]) : i \in Ids} :
           CheckExistence(out)
    \/ \E ans \in PromptAnswers : ConfirmOverwrite(ans)
    \/ Prepare
    \/ \E raises \in BOOLEAN : Upsert(raises)
    \/ CallerHandlesResult

Spec == Init /\ [][Next]_vars

-----------------------------------------------------------------------------
(* Icon resolution alone: the two properties applied to every combination   *)
(* of icon settings, working directory and network                          *)

ResolveLight ==
    /\ lightRes = Unevaluated
    /\ lightRes' = icon_url
    /\ UNCHANGED <<world, aux, warnings, remote, pc, silent, forceFlag, existing, darkRes, payload,
                   outcome, returned, failure, exitCode, before, calls, hist>>

ResolveDark ==
    /\ darkRes = Unevaluated
    /\ darkRes' = icon_dark_url
    /\ UNCHANGED <<world, aux, warnings, remote, pc, silent, forceFlag, existing, lightRes, payload,
                   outcome, returned, failure, exitCode, before, calls, hist>>

IconInit ==
    /\ \E lf \in {None, "", "logo.png", "LOGO.SVG", "logo.jpg", "gone.png"},
          lu \in {None, "https://cdn/i.svg", "https://cdn/icon"},
          df \in {None, "dark.png", "gone.png"},
          du \in {None, "https://cdn/dark", "https://cdn/i.png"} :
            settings = BaseSettings("ds-a", "TICKETS", lf, lu, df, du, TRUE)
    /\ fs \in {FsWith(files) : files \in SUBSET IconFiles}
    /\ net \in {NetUp, NetDarkDown, NetAllDown}
    /\ objFile = JsonFile("absent", <<>>)
    /\ qlFile = JsonFile("absent", <<>>)
    /\ remote = [i \in Ids |-> NoRecord]
    /\ InitRun
    /\ InitIdle

IconNext == ResolveLight \/ ResolveDark

IconSpec == IconInit /\ [][IconNext]_vars

-----------------------------------------------------------------------------
(* Properties of the push path, checked under Spec *)

HasCall(kind) == \E i \in DOMAIN calls : calls[i][1] = kind
Answered(kind, ans) == \E i \in DOMAIN calls : calls[i][1] = kind /\ calls[i][3] = ans
AddCalls == {i \in DOMAIN calls : calls[i][1] = "add"}
UpsertInvoked == AddCalls # {}

\* create_datasource has returned
PushEnded == outcome \in {"Created", "Updated", "Aborted", "Failed"}

\* the existence check found no record, or force, or the user answered yes
ProceedCondition ==
    \/ ~ExistingTruthy(existing)
    \/ pushForce
    \/ Answered("confirm_overwrite", "yes")

C2_RetrieveErrorMeansCreate ==
    (outcome # "NotCalled" /\ existing = Raised) =>
        /\ pc # "confirm" /\ ~HasCall("confirm_overwrite")
        /\ outcome # "Aborted"
        /\ PushEnded => (UpsertInvoked <=> (lightRes.ok /\ darkRes.ok))
        /\ outcome = "Failed" => failure.err \in {"KeyError", lightRes.err, darkRes.err,
                                                  "add raised"}
        /\ outcome # "Updated"

C2_Witness ==
    /\ existing = Raised
    /\ before # NoRecord
    /\ outcome = "Created"
    /\ calls[Len(calls)] = <<"add", settings.id, "ok">>

\* what create_datasource returns when it failed (line 808)
FailedResult == FALSE

\* C3 as stated: Aborted (the user declined the overwrite) is reported to the caller as
\* a successful no-op, distinguishable from Failed and never treated as an error.
C3_AbortedIsNotAFailure ==
    (outcome = "Aborted") =>
        /\ returned # FailedResult
        /\ pc = "exited" => exitCode = 0

\* C4: two pushes in sequence with forceOverwrite = true and the same input, the first
\* starting from a remote without a record under the id, on a remote that answers every
\* call and with a configuration whose payload can be prepared: the first is Created,
\* the second Updated, both return success, and the remote record is the same after each.
C4_ForcedPushIdempotent ==
    \A i \in DOMAIN hist :
        (/\ i + 1 \in DOMAIN hist
         /\ hist[i].force /\ hist[i + 1].force
         /\ hist[i].before = NoRecord
         /\ hist[i].clean /\ hist[i + 1].clean
         /\ ~ObjectDefsRaise /\ icon_url.ok /\ icon_dark_url.ok)
        => /\ hist[i].outcome = "Created" /\ hist[i].returned
           /\ hist[i + 1].outcome = "Updated" /\ hist[i + 1].returned
           /\ hist[i].after # NoRecord
           /\ hist[i + 1].after = hist[i].after

C4_Witness ==
    /\ Len(hist) >= 2
    /\ hist[1].force /\ hist[2].force
    /\ hist[1].before = NoRecord
    /\ hist[1].outcome = "Created" /\ hist[2].outcome = "Updated"
    /\ hist[2].after = hist[1].after

\* C5: every upsert push prepares or has written carries trust-URL-regex-for-view-
\* activity = true, strip-fragment-in-canonical-URL = true and is-entity-datasource =
\* false, whatever the local configuration.
C5_FlagsForced ==
    LET Forced(rec) == /\ rec.trust_url_regex_for_view_activity = TRUE
                       /\ rec.strip_fragment_in_canonical_url = TRUE
                       /\ rec.is_entity_datasource = FALSE
    IN  /\ payload # NoPayload => Forced(payload)
        /\ outcome \in {"Created", "Updated"} => Forced(remote[settings.id])

C5_Witness ==
    /\ outcome = "Updated"
    /\ before.is_entity_datasource = TRUE
    /\ settings.is_test_mode
    /\ remote[settings.id] = payload

\* C6: the id the upsert writes under is the configured datasource id the existence
\* check queried; push never creates or modifies a record under another id.
C6_NoRename ==
    /\ \A i \in DOMAIN calls : calls[i][2] = settings.id
    /\ payload # NoPayload => payload.name = settings.id
    /\ \A id \in Ids \ {settings.id} : remote[id] \in {NoRecord, OldRecord(id)}
    /\ remote[settings.id] # NoRecord => remote[settings.id].name = settings.id

C6_Witness ==
    /\ outcome = "Updated"
    /\ HasCall("retrieve_config")
    /\ remote[settings.id] = payload
    /\ \E id \in Ids \ {settings.id} : remote[id] = OldRecord(id)

\* C7: the upsert is invoked at most once per push, and when it raises push ends at once
\* with a Failed result returned to the caller (no retry, nothing propagates), the remote
\* record left as it was.
C7_UpsertFailureReturned ==
    /\ Cardinality(AddCalls) <= 1
    /\ Answered("add", "raised") =>
           /\ pc \in {"returned", "exited"}
           /\ outcome = "Failed" /\ returned = FailedResult
           /\ calls[Len(calls)][1] = "add"
           /\ remote[settings.id] = before

C7_Witness ==
    /\ Answered("add", "raised")
    /\ pc = "exited"
    /\ exitCode = 1

-----------------------------------------------------------------------------
(* Properties of icon resolution, checked under IconSpec *)

\* the files and URLs a resolution looked at
Touched(res) == {res.trace[i][2] : i \in DOMAIN res.trace}

SupportedSuffixes == {".png", ".svg"}

\* a chain whose first specified candidate is an explicit file f, else an explicit URL
\* u, fails at once on an invalid one and looks at nothing else
FailsAtCandidate(res, f, u) ==
    /\ (Truthy(f) /\ ~Exists(f)) =>
           /\ ~res.ok /\ res.err = "Icon file not found" /\ res.about = f
           /\ Touched(res) \subseteq {f}
    /\ (Truthy(f) /\ Exists(f) /\ Suffix(f) \notin SupportedSuffixes) =>
           /\ ~res.ok /\ Touched(res) \subseteq {f}
    /\ (~Truthy(f) /\ Truthy(u) /\ ~net[u].ok) =>
           /\ ~res.ok /\ res.err = "Failed to download icon from" /\ res.about = u
           /\ Touched(res) \subseteq {u}

\* C8: in icon resolution the first specified candidate, when invalid (an explicit file
\* that does not exist, or an explicit URL whose fetch fails), makes the chain fail at
\* once with an error naming it; no later candidate (explicit URL, default-named file,
\* light-icon inheritance) is consulted. An explicit file of an unsupported format fails
\* the chain at once too.
C8_InvalidCandidateFailsChain ==
    /\ lightRes # Unevaluated =>
           FailsAtCandidate(lightRes, settings.icon_filename_lightmode,
                            settings.icon_url_lightmode)
    /\ darkRes # Unevaluated =>
           FailsAtCandidate(darkRes, settings.icon_filename_darkmode,
                            settings.icon_url_darkmode)

\* a missing explicit light file while the URL, the default file and, for the dark icon,
\* a failing explicit URL while the light chain would all have produced an icon
C8_Witness ==
    /\ settings.icon_filename_lightmode = "gone.png"
    /\ settings.icon_url_lightmode = "https://cdn/icon" /\ net["https://cdn/icon"].ok
    /\ Exists(DefaultLight)
    /\ lightRes.err = "Icon file not found"
    /\ settings.icon_filename_darkmode = None
    /\ settings.icon_url_darkmode = "https://cdn/dark" /\ ~net["https://cdn/dark"].ok
    /\ Exists(DefaultDark)
    /\ darkRes.err = "Failed to download icon from"

\* C9: the light icon resolves by strict precedence: the explicit file if specified,
\* else the explicit URL if specified, else the default-named local file if it exists,
\* else resolution fails with the message listing the three options; a lower-precedence
\* source is never looked at when a higher-precedence one is specified.
C9_LightPrecedence ==
    LET f == settings.icon_filename_lightmode
        u == settings.icon_url_lightmode
    IN  lightRes # Unevaluated =>
            /\ Truthy(f) =>
                   /\ Touched(lightRes) \subseteq {f}
                   /\ lightRes.ok => lightRes.val.b64 = b64encode(fs[f])
            /\ (~Truthy(f) /\ Truthy(u)) =>
                   /\ Touched(lightRes) = {u}
                   /\ lightRes.ok <=> net[u].ok
                   /\ lightRes.ok => lightRes.val.b64 = b64encode(net[u].body)
            /\ (~Truthy(f) /\ ~Truthy(u) /\ Exists(DefaultLight)) =>
                   /\ lightRes.ok
                   /\ lightRes.val = DataUrl("image/png", b64encode(fs[DefaultLight]))
            /\ (~Truthy(f) /\ ~Truthy(u) /\ ~Exists(DefaultLight)) =>
                   /\ ~lightRes.ok
                   /\ lightRes.err = "No light mode icon found"
                   /\ lightRes.about = "three options"

\* an explicit file wins over an explicit URL and the default file, both usable
C9_Witness ==
    /\ settings.icon_filename_lightmode = "LOGO.SVG"
    /\ settings.icon_url_lightmode = "https://cdn/i.svg" /\ net["https://cdn/i.svg"].ok
    /\ Exists(DefaultLight)
    /\ lightRes.ok
    /\ lightRes.val = DataUrl("image/svg+xml", b64encode(SvgBytes))

\* no explicit dark file, no explicit dark URL and no default-named dark file
NoDarkSource ==
    /\ ~Truthy(settings.icon_filename_darkmode)
    /\ ~Truthy(settings.icon_url_darkmode)
    /\ ~Exists(DefaultDark)

\* C10: with no dark-specific icon source (explicit file, explicit URL or default-named
\* dark file) and the light icon resolving to a data URL D, the dark icon resolves to
\* exactly D; a dark icon that resolved is never unset.
C10_DarkInheritsLight ==
    /\ (lightRes # Unevaluated /\ lightRes.ok /\ darkRes # Unevaluated /\ NoDarkSource) =>
           /\ darkRes.ok
           /\ darkRes.val = lightRes.val
    /\ darkRes.ok => darkRes.val.mime \in {"image/png", "image/svg+xml"}

C10_Witness ==
    /\ NoDarkSource
    /\ settings.icon_filename_lightmode = None
    /\ settings.icon_url_lightmode = "https://cdn/icon"
    /\ Exists(DefaultLight)
    /\ lightRes.ok /\ darkRes.ok
    /\ darkRes.val = DataUrl("image/svg+xml", b64encode(SvgBytes))

\* the content type or file extension each source looked at declares for the icon
DeclaredTypes(res) ==
    {net[res.trace[i][2]].ctype : i \in {j \in DOMAIN res.trace : res.trace[j][1] = "get"}}
    \cup {mime_types(Suffix(res.trace[i][2])) :
              i \in {j \in DOMAIN res.trace : res.trace[j][1] = "open"}}

\* C11: every icon that resolves is a data URL whose MIME type is exactly image/png or
\* image/svg+xml, and the type is the one its source declared: a URL answering with any
\* other content type, or a file of any other extension, is a resolution failure and is
\* never accepted under a substituted MIME type.
C11_OnlyDeclaredPngOrSvg ==
    \A res \in {lightRes, darkRes} :
        res.ok =>
            /\ res.val.mime \in {"image/png", "image/svg+xml"}
            /\ DeclaredTypes(res) = {res.val.mime}

-----------------------------------------------------------------------------
(* The url_regex property alone, applied to every home URL and override     *)

MaxPath == 3

\* all sequences over S of length at most n
SeqsUpTo(S, n) == UNION {[1..k -> S] : k \in 0..n}

\* home URLs: scheme and host, then no path or a path that starts with "/"
HomeUrls ==
    {<<h>> \o p : h \in {"https://app.example.com", "http://intranet"},
                  p \in {<<>>} \cup {<<"/">> \o q : q \in SeqsUpTo({"/", "dash", "v2"},
                                                                    MaxPath - 1)}}

\* GLEAN_DATASOURCE_URL_REGEX: unset or empty, or a pattern
UrlRegexOverrides == {<<>>, <<"https://app.example.com", "/.*">>,
                      <<"https://other.example.com", "/docs/", ".*">>}

ResolveUrlRegex ==
    /\ result = NoOutput
    /\ result' = [kind |-> "url_regex", val |-> url_regex]
    /\ UNCHANGED <<world, warnings, env, origin, reported, disk, remote, pc, silent,
                   forceFlag, existing, lightRes, darkRes, payload, outcome, returned,
                   failure, exitCode, before, calls, hist>>

RegexInit ==
    /\ \E home \in HomeUrls, override \in UrlRegexOverrides :
           settings = [BaseSettings("ds-a", "TICKETS", None, None, None, None, TRUE)
                          EXCEPT !.home_url = home, !.url_regex = override]
    /\ fs = FsWith({})
    /\ net = NetAllDown
    /\ objFile = JsonFile("absent", <<>>)
    /\ qlFile = JsonFile("absent", <<>>)
    /\ remote = [i \in Ids |-> NoRecord]
    /\ InitRun
    /\ InitIdle

RegexNext == ResolveUrlRegex

RegexSpec == RegexInit /\ [][RegexNext]_vars

-----------------------------------------------------------------------------
(* Properties of url_regex, checked under RegexSpec *)

UrlRegexResolved == result # NoOutput /\ result.kind = "url_regex"

\* C12: with no explicit URL-regex override, the resolved urlRegex is the home URL's
\* scheme and host followed by "/.*", any path of the home URL being discarded: for
\* homeUrl "https://app.example.com/dash" it equals "https://app.example.com/.*".
C12_DefaultIsSchemeAndHost ==
    (UrlRegexResolved /\ settings.url_regex = <<>>) =>
        result.val = SchemeAndHost(settings.home_url) \o <<"/.*">>

\* C13: the resolved urlRegex equals the explicit override whenever one is given, and
\* otherwise equals homeUrl with its trailing "/" characters stripped, followed by "/.*".
C13_OverrideElseStrippedHome ==
    LET home == settings.home_url
    IN  UrlRegexResolved =>
            IF settings.url_regex # <<>> THEN result.val = settings.url_regex
            ELSE \E k \in 1..Len(home) :
                    /\ home[k] # "/"
                    /\ \A j \in (k + 1)..Len(home) : home[j] = "/"
                    /\ result.val = SubSeq(home, 1, k) \o <<"/.*">>

\* a home URL with a path and trailing slashes, no override
C13_Witness ==
    /\ UrlRegexResolved
    /\ settings.url_regex = <<>>
    /\ settings.home_url = <<"https://app.example.com", "/", "dash", "/">>
    /\ result.val = <<"https://app.example.com", "/", "dash", "/.*">>

-----------------------------------------------------------------------------
(* DatasourceSettings.test_user_emails_list; the setting is a text whose     *)
(* tokens are a comma, a blank, or a run of characters without either        *)

MaxEntries == 3

\* what stands between two commas of the setting
EntryTexts ==
    {<<>>, <<" ">>, <<"a@b.com">>, <<" ", "a@b.com">>, <<"a@b.com", " ">>,
     <<"not-an-email">>, <<" ", "not-an-email">>, <<"c@d.co">>, <<" ", "c@d.co">>,
     <<"a@b.com", "c@d.co">>, <<"not-an-email", "a@b.com">>, <<"a@b.com", " ", "c@d.co">>}

\* ",".join(entries)
RECURSIVE JoinComma(_)
JoinComma(es) ==
    IF Len(es) = 0 THEN <<>>
    ELSE IF Len(es) = 1 THEN es[1]
    ELSE es[1] \o <<",">> \o JoinComma(Tail(es))

\* index of the first comma of a text that has one
FirstComma(t) == CHOOSE k \in DOMAIN t : t[k] = "," /\ \A j \in 1..(k - 1) : t[j] # ","

\* str.split(",")
RECURSIVE SplitComma(_)
SplitComma(t) ==
    IF \A k \in DOMAIN t : t[k] # "," THEN <<t>>
    ELSE <<SubSeq(t, 1, FirstComma(t) - 1)>>
         \o SplitComma(SubSeq(t, FirstComma(t) + 1, Len(t)))

\* str.strip()
RECURSIVE Strip(_)
Strip(t) ==
    IF Len(t) > 0 /\ t[1] = " " THEN Strip(SubSeq(t, 2, Len(t)))
    ELSE IF Len(t) > 0 /\ t[Len(t)] = " " THEN Strip(SubSeq(t, 1, Len(t) - 1))
    ELSE t

\* re.match(email_pattern, email) on the concatenation of the tokens: the text must end
\* in an address; what precedes it must consist of local-part characters only, which of
\* the tokens only "not-an-email" does
EmailPatternMatches(e) ==
    /\ Len(e) > 0
    /\ e[Len(e)] \in {"a@b.com", "c@d.co"}
    /\ \A k \in 1..(Len(e) - 1) : e[k] = "not-an-email"

\* [x for x in xs if keep(x)], keep given as the set of kept values
RECURSIVE Filter(_, _)
Filter(xs, kept) ==
    IF xs = <<>> THEN <<>>
    ELSE (IF xs[1] \in kept THEN <<xs[1]>> ELSE <<>>) \o Filter(Tail(xs), kept)

\* the list built without trimming the entries
test_user_emails_list_NoTrim ==
    LET raw == settings.test_user_emails
        pieces == IF raw = <<>> THEN <<>> ELSE SplitComma(raw)
        emails == Filter(pieces, {x \in {pieces[i] : i \in DOMAIN pieces} : Strip(x) # <<>>})
        all == {emails[i] : i \in DOMAIN emails}
    IN  [val |-> Filter(emails, {e \in all : EmailPatternMatches(e)}),
         warned |-> Filter(emails, {e \in all : ~EmailPatternMatches(e)})]

\* lines 320-337: the valid addresses, and the entries log_warning reported as skipped
test_user_emails_list ==
    LET raw == settings.test_user_emails
        pieces == IF raw = <<>> THEN <<>>
                  ELSE [i \in DOMAIN SplitComma(raw) |-> Strip(SplitComma(raw)[i])]
        emails == Filter(pieces, {pieces[i] : i \in DOMAIN pieces} \ {<<>>})
        all == {emails[i] : i \in DOMAIN emails}
    IN  [val |-> Filter(emails, {e \in all : EmailPatternMatches(e)}),
         warned |-> Filter(emails, {e \in all : ~EmailPatternMatches(e)})]

ResolveTestUsers ==
    /\ result = NoOutput
    /\ result' = [kind |-> "test_user_emails_list", val |-> test_user_emails_list.val]
    /\ warnings' = {[msg |-> "Invalid email format (skipped)",
                     email |-> test_user_emails_list.warned[i],
                     nth |-> i] : i \in DOMAIN test_user_emails_list.warned}
    /\ UNCHANGED <<world, env, origin, reported, disk, remote, pc, silent,
                   forceFlag, existing, lightRes, darkRes, payload, outcome, returned,
                   failure, exitCode, before, calls, hist>>

EmailInit ==
    /\ \E es \in SeqsUpTo(EntryTexts, MaxEntries) :
           settings = [BaseSettings("ds-a", "TICKETS", None, None, None, None, FALSE)
                          EXCEPT !.test_user_emails = JoinComma(es)]
    /\ fs = FsWith({})
    /\ net = NetAllDown
    /\ objFile = JsonFile("absent", <<>>)
    /\ qlFile = JsonFile("absent", <<>>)
    /\ remote = [i \in Ids |-> NoRecord]
    /\ InitRun
    /\ InitIdle

EmailNext == ResolveTestUsers

EmailSpec == EmailInit /\ [][EmailNext]_vars

-----------------------------------------------------------------------------
(* Properties of test_user_emails_list, checked under EmailSpec *)

\* positions that delimit the comma-separated entries of the setting
Cuts == {0, Len(settings.test_user_emails) + 1}
        \cup {k \in DOMAIN settings.test_user_emails : settings.test_user_emails[k] = ","}

NthCut(n) == CHOOSE c \in Cuts : Cardinality({d \in Cuts : d < c}) = n - 1

\* the n-th entry without the blanks around it
TrimmedEntry(n) ==
    LET raw == settings.test_user_emails
        ks == {k \in (NthCut(n) + 1)..(NthCut(n + 1) - 1) : raw[k] # " "}
        lo == CHOOSE k \in ks : \A j \in ks : k <= j
        hi == CHOOSE k \in ks : \A j \in ks : k >= j
    IN  IF ks = {} THEN <<>> ELSE SubSeq(raw, lo, hi)

TrimmedEntries == [n \in 1..(Cardinality(Cuts) - 1) |-> TrimmedEntry(n)]

\* the entries log_warning named, in the order it named them
WarnedEntries ==
    [n \in 1..Cardinality(warnings) |-> (CHOOSE w \in warnings : w.nth = n).email]

TestUsersResolved == result # NoOutput /\ result.kind = "test_user_emails_list"

\* C14: the resolved test-user list is exactly the comma-separated input entries,
\* trimmed, that pass the email check, in their input order; every invalid entry (an
\* entry that is not blank and fails the check) is dropped with a warning and never
\* causes a failure: "a@b.com, not-an-email, c@d.co" gives ["a@b.com", "c@d.co"].
C14_TestUsersFiltered ==
    LET es == {TrimmedEntries[n] : n \in DOMAIN TrimmedEntries}
    IN  TestUsersResolved =>
            /\ result.val = Filter(TrimmedEntries, {e \in es : EmailPatternMatches(e)})
            /\ WarnedEntries =
                   Filter(TrimmedEntries, {e \in es : e # <<>> /\ ~EmailPatternMatches(e)})

\* the example of the specification: one warning, for the second entry
C14_Witness ==
    /\ TestUsersResolved
    /\ settings.test_user_emails =
           <<"a@b.com", ",", " ", "not-an-email", ",", " ", "c@d.co">>
    /\ result.val = <<<<"a@b.com">>, <<"c@d.co">>>>
    /\ WarnedEntries = <<<<"not-an-email">>>>

-----------------------------------------------------------------------------
(* DatasourceSettings(): the fields, their constraints and the display-name  *)
(* validator. An environment carries the set of variables it defines.        *)

MaxDisplayNameLength == 50

\* a display name is a text of single characters and of one long run of letters
LongRun == "a...a"
CharLen(token) == IF token = LongRun THEN MaxDisplayNameLength - 1 ELSE 1

RECURSIVE TextLen(_)
TextLen(t) == IF t = <<>> THEN 0 ELSE CharLen(t[1]) + TextLen(Tail(t))

RequiredFields ==
    {"glean_indexing_api_key", "glean_instance_name", "glean_datasource_display_name",
     "glean_datasource_id", "glean_datasource_home_url"}

FieldError(field, msg) == [field |-> field, msg |-> msg]

\* the validator without its check of the last character
DisplayNameErrors_SymbolsAllowed(v) ==
    IF TextLen(v) > MaxDisplayNameLength THEN {"String should have at most 50 characters"}
    ELSE IF v # Strip(v) THEN {"Display name cannot have leading or trailing whitespace"}
    ELSE {}

\* max_length=50 of line 282, then validate_display_name (lines 303-311), which runs
\* only on a value that passed the constraint
DisplayNameErrors(v) ==
    IF TextLen(v) > MaxDisplayNameLength THEN {"String should have at most 50 characters"}
    ELSE IF v # Strip(v) THEN {"Display name cannot have leading or trailing whitespace"}
    ELSE IF v # <<>> /\ v[Len(v)] \in {"/", ";", ":", ","}
         THEN {"Display name cannot end with symbols like /, ;, :, ,"}
    ELSE {}

\* pattern="^[a-z0-9-]+$"
IdPatternMatches(id) == id \in {"ds-a", "ds-b", "my-app", "temp"}

\* pattern="^https?://", decided by the text's first token
HomeUrlPatternMatches(u) ==
    Len(u) > 0 /\ u[1] \in {"https://app.example.com", "http://intranet", "https://temp.com"}

\* the errors of one field of an environment e
ErrorsOfField(e, f) ==
    IF f \notin e.names
    THEN (IF f \in RequiredFields THEN {FieldError(f, "Field required")} ELSE {})
    ELSE CASE f = "glean_datasource_display_name" ->
                  {FieldError(f, m) : m \in DisplayNameErrors(e[f])}
           [] f = "glean_datasource_id" ->
                  IF IdPatternMatches(e[f]) THEN {}
                  ELSE {FieldError(f, "String should match pattern '^[a-z0-9-]+$'")}
           [] f = "glean_datasource_home_url" ->
                  IF HomeUrlPatternMatches(e[f]) THEN {}
                  ELSE {FieldError(f, "String should match pattern '^https?://'")}
           [] f = "glean_datasource_category" ->
                  IF e[f] \in DatasourceCategory THEN {}
                  ELSE {FieldError(f, "Input should be one of the category values")}
           [] OTHER -> {}

SettingsFields == RequiredFields \cup {"glean_datasource_category"}

\* validation that raises on the first field in error, in declaration order
ValidationErrors_FirstOnly(e) ==
    LET order == <<"glean_indexing_api_key", "glean_instance_name",
                   "glean_datasource_display_name", "glean_datasource_id",
                   "glean_datasource_category", "glean_datasource_home_url">>
        bad == {i \in DOMAIN order : ErrorsOfField(e, order[i]) # {}}
    IN  IF bad = {} THEN {}
        ELSE ErrorsOfField(e, order[CHOOSE i \in bad : \A j \in bad : i <= j])

\* ValidationError.errors(): every field is validated, each error is kept
ValidationErrors(e) == UNION {ErrorsOfField(e, f) : f \in SettingsFields}

EnvGet(e, f, default) == IF f \in e.names THEN e[f] ELSE default

\* the instance a valid environment yields; unset optional fields take their defaults
DatasourceSettingsOf(e) ==
    [id |-> e["glean_datasource_id"],
     display_name |-> e["glean_datasource_display_name"],
     category |-> EnvGet(e, "glean_datasource_category", "KNOWLEDGE_HUB"),
     home_url |-> e["glean_datasource_home_url"],
     url_regex |-> EnvGet(e, "glean_datasource_url_regex", <<>>),
     suggestion_text |-> <<>>,
     icon_filename_lightmode |-> None,
     icon_url_lightmode |-> None,
     icon_filename_darkmode |-> None,
     icon_url_darkmode |-> None,
     user_referenced_by_email |-> TRUE,
     is_test_mode |-> TRUE,
     test_user_emails |-> <<>>]

NoSettings == [assembled |-> FALSE]

Env(names, key, instance, name, id, cat, home) ==
    [names |-> names,
     glean_indexing_api_key |-> key,
     glean_instance_name |-> instance,
     glean_datasource_display_name |-> name,
     glean_datasource_id |-> id,
     glean_datasource_category |-> cat,
     glean_datasource_home_url |-> home]

-----------------------------------------------------------------------------
(* Assembly alone, applied to every display name *)

MaxNameTokens == 3

NameTokens == {"a", " ", "/", ";", ":", ",", LongRun}

AssembleSettings ==
    /\ result = NoOutput
    /\ result' = [kind |-> "DatasourceSettings", errors |-> ValidationErrors(env)]
    /\ settings' = IF ValidationErrors(env) = {} THEN DatasourceSettingsOf(env) ELSE settings
    /\ UNCHANGED <<fs, objFile, qlFile, net, warnings, env, origin, reported, disk, remote,
                   pc, silent, forceFlag, existing, lightRes, darkRes, payload, outcome,
                   returned, failure, exitCode, before, calls, hist>>

\* the run variables of a process that has no settings yet
InitUnassembledRun ==
    /\ settings = NoSettings
    /\ silent = FALSE
    /\ forceFlag = FALSE
    /\ existing = ReturnedNone
    /\ lightRes = Unevaluated
    /\ darkRes = Unevaluated
    /\ payload = NoPayload
    /\ outcome = "NotCalled"
    /\ returned = FALSE
    /\ failure = NoFailure
    /\ exitCode = 0
    /\ before = NoRecord
    /\ calls = <<>>
    /\ hist = <<>>
    /\ origin = "env"
    /\ reported = {}
    /\ warnings = {}
    /\ result = NoOutput
    /\ disk = <<>>

NameInit ==
    /\ \E d \in SeqsUpTo(NameTokens, MaxNameTokens) :
           env = Env(SettingsFields, "key", "acme", d, "ds-a", "TICKETS",
                     <<"https://app.example.com">>)
    /\ fs = FsWith({})
    /\ net = NetAllDown
    /\ objFile = JsonFile("absent", <<>>)
    /\ qlFile = JsonFile("absent", <<>>)
    /\ remote = [i \in Ids |-> NoRecord]
    /\ pc = "idle"
    /\ InitUnassembledRun

NameNext == AssembleSettings

NameSpec == NameInit /\ [][NameNext]_vars

-----------------------------------------------------------------------------
(* Properties of the display-name field, checked under NameSpec *)

Assembled == result # NoOutput /\ result.kind = "DatasourceSettings"

DisplayName == env["glean_datasource_display_name"]

EndsInSymbol(d) == d # <<>> /\ d[Len(d)] \in {"/", ";", ":", ","}

\* C15: assembly accepts a display name d, unchanged, when d has at most 50 characters,
\* no leading or trailing whitespace and does not end in one of / ; : , and it rejects
\* every d ending in one of those four characters with a validation error naming the
\* display-name field.
C15_DisplayNameValidated ==
    LET d == DisplayName
    IN  Assembled =>
            /\ (/\ TextLen(d) <= MaxDisplayNameLength
                /\ (d = <<>> \/ (d[1] # " " /\ d[Len(d)] # " "))
                /\ ~EndsInSymbol(d)) =>
                   /\ result.errors = {}
                   /\ settings # NoSettings
                   /\ settings.display_name = d
            /\ EndsInSymbol(d) =>
                   /\ settings = NoSettings
                   /\ Cardinality(result.errors) = 1
                   /\ \A err \in result.errors : err.field = "glean_datasource_display_name"

\* a name of exactly 50 characters accepted
C15_Witness ==
    /\ Assembled
    /\ DisplayName = <<"a", LongRun>>
    /\ settings # NoSettings
    /\ settings.display_name = <<"a", LongRun>>

-----------------------------------------------------------------------------
(* One process from its start: the setup command (silent or interactive)    *)
(* or the config command loads the settings from the environment; setup     *)
(* then prompts for them where the environment does not validate, and pushes *)

\* the enum's members in declaration order (lines 193-207)
CategoryOrder ==
    <<"KNOWLEDGE_HUB", "PUBLISHED_CONTENT", "COLLABORATIVE_CONTENT", "QUESTION_ANSWER",
      "TICKETS", "CODE_REPOSITORY", "CHANGE_MANAGEMENT", "EMAIL", "MESSAGING", "CRM",
      "SSO", "ATS", "PEOPLE", "EXTERNAL_SHORTCUT", "UNCATEGORIZED">>

DisallowedCategories == {"PEOPLE", "EXTERNAL_SHORTCUT", "UNCATEGORIZED"}

\* a choice list that offers every member of the enum
valid_categories_All == CategoryOrder

\* line 567: the members offered by the category prompt
valid_categories ==
    LET kept(i) == {j \in 1..i : CategoryOrder[j] \notin DisallowedCategories}
        n == Cardinality(kept(Len(CategoryOrder)))
    IN  [k \in 1..n |->
            CategoryOrder[CHOOSE i \in kept(Len(CategoryOrder)) : Cardinality(kept(i)) = k]]

\* normalize_datasource_id on the names the prompts are answered with
normalize_datasource_id(name) ==
    CASE name = <<"DS", " ", "A">> -> "ds-a"
      [] name = <<"DS", " ", "A", "/">> -> "ds-a"

\* the single line the config command logs when the settings do not validate
GenericError == FieldError("<none>", "Missing required environment variables")

\* what StartRun does once the settings s are at hand
BeginRun(s) ==
    /\ existing' = ReturnedNone
    /\ lightRes' = Unevaluated
    /\ darkRes' = Unevaluated
    /\ payload' = NoPayload
    /\ outcome' = "NotCalled"
    /\ returned' = FALSE
    /\ failure' = NoFailure
    /\ before' = remote[s.id]
    /\ calls' = <<>>
    /\ warnings' = LoadWarnings

\* lines 1059-1062 and 1091-1097 (silent), lines 1101-1116 (interactive)
SetupLoadsSettings(s, f) ==
    /\ pc = "setup"
    /\ silent' = s
    /\ forceFlag' = f
    /\ result' = [kind |-> "DatasourceSettings", errors |-> ValidationErrors(env)]
    /\ IF ValidationErrors(env) = {}
       THEN /\ settings' = DatasourceSettingsOf(env)
            /\ BeginRun(DatasourceSettingsOf(env))
            /\ pc' = IF s THEN "precheck" ELSE "proceed"
            /\ UNCHANGED <<reported, exitCode>>
       ELSE /\ IF s
               THEN /\ reported' = ValidationErrors(env)
                    /\ exitCode' = 1
                    /\ pc' = "invalid"
               ELSE /\ pc' = "interactive"
                    /\ UNCHANGED <<reported, exitCode>>
            /\ UNCHANGED <<settings, existing, lightRes, darkRes, payload, outcome,
                           returned, failure, before, calls, warnings>>
    /\ UNCHANGED <<fs, objFile, qlFile, net, remote, env, origin, disk, hist>>

\* lines 813-817
ConfigLoadsSettings ==
    /\ pc = "config"
    /\ result' = [kind |-> "DatasourceSettings", errors |-> ValidationErrors(env)]
    /\ IF ValidationErrors(env) = {}
       THEN /\ settings' = DatasourceSettingsOf(env)
            /\ pc' = "pull"
            /\ UNCHANGED reported
       ELSE /\ reported' = {GenericError}
            /\ pc' = "config-failed"
            /\ UNCHANGED settings
    /\ UNCHANGED <<fs, objFile, qlFile, net, remote, env, origin, disk, hist, silent,
                   forceFlag, existing, lightRes, darkRes, payload, outcome, returned,
                   failure, exitCode, before, calls, warnings>>

\* interactive_setup (lines 529-714) with the answers the prompts finally accept: the
\* display-name prompt repeats until DatasourceSettings(...) with that name validates,
\* which it never does while another variable of the environment is in error
InteractiveSetup(name, idOk, choice, sameDomain) ==
    /\ pc = "interactive"
    /\ DisplayNameErrors(name) = {}
    /\ ErrorsOfField(env, "glean_datasource_category") = {}
    /\ choice >= 1 /\ choice <= Len(valid_categories)
    /\ LET home == <<"https://app.example.com", "/", "dash">>
           s == [id |-> IF idOk THEN normalize_datasource_id(name) ELSE "ds-b",
                 display_name |-> name,
                 category |-> valid_categories[choice],
                 home_url |-> home,
                 url_regex |-> IF sameDomain THEN SchemeAndHost(home) \o <<"/.*">>
                               ELSE <<"https://docs.example.com", "/.*">>,
                 suggestion_text |-> <<>>,
                 icon_filename_lightmode |-> None,
                 icon_url_lightmode |-> None,
                 icon_filename_darkmode |-> None,
                 icon_url_darkmode |-> None,
                 user_referenced_by_email |-> TRUE,
                 is_test_mode |-> TRUE,
                 test_user_emails |-> <<>>]
       IN  /\ settings' = s
           /\ BeginRun(s)
    /\ origin' = "interactive"
    /\ pc' = "proceed"
    /\ UNCHANGED <<fs, objFile, qlFile, net, remote, env, reported, result, disk, hist,
                   silent, forceFlag, exitCode>>

\* an object definition that names no category
UncategorizedObject == [TicketObject EXCEPT !.keys = {"name"}, !.name = "note"]

\* the values GLEAN_DATASOURCE_CATEGORY takes: a member of the enum, or not
EnvCategories == DatasourceCategory \cup {"WIKI"}

SetupInit ==
    /\ \E names \in SUBSET {"glean_datasource_home_url", "glean_datasource_category"},
          name \in {<<"DS", " ", "A">>, <<"DS", " ", "A", "/">>},
          id \in {"ds-a", "Ds A"},
          cat \in EnvCategories :
            /\ env = Env(names \cup {"glean_indexing_api_key", "glean_instance_name",
                                     "glean_datasource_display_name",
                                     "glean_datasource_id"},
                         "key", "acme", name, id, cat, <<"https://app.example.com">>)
            /\ \/ cat \in {"KNOWLEDGE_HUB", "PEOPLE", "WIKI"}
               \/ ValidationErrors(env) = {}
    /\ pc \in {"setup", "config"}
    /\ fs = FsWith({DefaultLight})
    /\ net = NetAllDown
    /\ objFile = JsonFile("ok", <<TicketObject, BareObject, UncategorizedObject>>)
    /\ qlFile = JsonFile("ok", <<NewIssueLink>>)
    /\ remote \in {[i \in Ids |-> NoRecord], [i \in Ids |-> OldRecord(i)]}
    /\ InitUnassembledRun

SetupNext ==
    \/ \E s \in BOOLEAN, f \in BOOLEAN : SetupLoadsSettings(s, f)
    \/ ConfigLoadsSettings
    \/ \E name \in {<<"DS", " ", "A">>, <<"DS", " ", "A", "/">>},
          idOk \in BOOLEAN, choice \in 0..(Len(CategoryOrder) + 1), sameDomain \in BOOLEAN :
           InteractiveSetup(name, idOk, choice, sameDomain)
    \/ \E out \in {Raised, ReturnedNone} \cup {Found(remote[i]) : i \in Ids} :
           SilentPreCheck(out)
    \/ \E ans \in PromptAnswers : ProceedPrompt(ans)
    \/ \E out \in {Raised, ReturnedNone} \cup {Found(remote[i]) : i \in Ids} :
           CheckExistence(out)
    \/ \E ans \in PromptAnswers : ConfirmOverwrite(ans)
    \/ Prepare
    \/ \E raises \in BOOLEAN : Upsert(raises)
    \/ CallerHandlesResult

SetupSpec == SetupInit /\ [][SetupNext]_vars

-----------------------------------------------------------------------------
(* Properties of a process from its start, checked under SetupSpec *)

\* the fields of the environment that are missing though required, or break a constraint
OffendingFields == {f \in SettingsFields : ErrorsOfField(env, f) # {}}

AssemblyFailed == Assembled /\ OffendingFields # {}

\* the reported lines are one per offending field and nothing else
OneMessagePerOffendingField ==
    /\ \A f \in OffendingFields : Cardinality({r \in reported : r.field = f}) = 1
    /\ \A r \in reported : r.field \in OffendingFields

\* C16 as stated: when several required or constrained fields are invalid at once,
\* assembly does not stop at the first: the reported error set contains exactly one
\* message per offending field, for every offending field, in a single pass.
C16_EveryErrorReported == AssemblyFailed => OneMessagePerOffendingField

\* C16, amended: in silent setup, when several required or constrained fields are
\* invalid at once, assembly does not stop at the first: the reported error set contains
\* exactly one message per offending field, for every offending field, in a single pass,
\* and the process exits with status 1. Interactive setup reports none of them and turns
\* to its prompts; the config command reports one generic message instead.
C16_SilentReportsEveryError ==
    AssemblyFailed =>
        /\ pc = "invalid" => (silent /\ OneMessagePerOffendingField /\ exitCode = 1)
        /\ pc = "config-failed" => reported = {GenericError}
        /\ pc \notin {"invalid", "config-failed"} => (~silent /\ reported = {})
        /\ silent => pc = "invalid"

\* a silent run whose environment has three fields in error
C16_Witness ==
    /\ pc = "invalid" /\ silent
    /\ OffendingFields = {"glean_datasource_display_name", "glean_datasource_id",
                          "glean_datasource_home_url"}
    /\ Cardinality(reported) = Cardinality(OffendingFields)

-----------------------------------------------------------------------------
(* Push runs over every state of the two optional JSON files *)

FileStates(items) == {JsonFile("absent", <<>>), JsonFile("unparsable", <<>>),
                      JsonFile("ok", items)}

LoadInit ==
    /\ settings = BaseSettings("ds-a", "TICKETS", None, None, None, None, TRUE)
    /\ fs = FsWith({DefaultLight})
    /\ net = NetAllDown
    /\ objFile \in FileStates(<<TicketObject, BareObject>>)
    /\ qlFile \in FileStates(<<NewIssueLink>>)
    /\ remote \in {[i \in Ids |-> NoRecord], [i \in Ids |-> OldRecord(i)]}
    /\ InitRun
    /\ InitIdle

LoadSpec == LoadInit /\ [][Next]_vars

-----------------------------------------------------------------------------
(* Properties of the optional files, checked under LoadSpec *)

Warned(file) == \E w \in warnings : w.file = file

Prepared == payload # NoPayload

\* push got past the preparation of the payload whenever it ended
NeverAbortsPush == outcome = "Failed" => Answered("add", "raised")

\* C17 as stated: a missing or unparsable object-definitions file or quick-links file
\* always degrades to an empty list accompanied by a warning; it never aborts assembly or
\* push, and the two files are handled independently of each other.
C17_DegradeWithWarning ==
    /\ NeverAbortsPush
    /\ Prepared =>
           /\ objFile.status # "ok" =>
                  payload.object_definitions = Nothing /\ Warned("object_types.json")
           /\ qlFile.status # "ok" =>
                  payload.quicklinks = Nothing /\ Warned("quick_links.json")

\* C17, amended: a missing or unparsable object-definitions file or quick-links file
\* always degrades to an empty list, with a warning when the file exists and cannot be
\* parsed and silently when it is missing; it never aborts assembly or push, and the two
\* files are handled independently of each other.
C17_DegradeWarnOnlyUnparsable ==
    /\ NeverAbortsPush
    /\ Prepared =>
           /\ objFile.status # "ok" => payload.object_definitions = Nothing
           /\ qlFile.status # "ok" => payload.quicklinks = Nothing
           /\ Warned("object_types.json") <=> objFile.status = "unparsable"
           /\ Warned("quick_links.json") <=> qlFile.status = "unparsable"
           /\ objFile.status = "ok" =>
                  /\ payload.object_definitions # Nothing
                  /\ Len(payload.object_definitions.v) = Len(objFile.items)
           /\ qlFile.status = "ok" =>
                  /\ payload.quicklinks # Nothing
                  /\ Len(payload.quicklinks.v) = Len(qlFile.items)

\* a push that went through with one file unparsable, the other missing
C17_Witness ==
    /\ outcome = "Created"
    /\ objFile.status = "unparsable" /\ qlFile.status = "absent"
    /\ payload.object_definitions = Nothing /\ payload.quicklinks = Nothing
    /\ Warned("object_types.json") /\ ~Warned("quick_links.json")

-----------------------------------------------------------------------------
(* The pull path: fetch_datasource_config and save_data_url_to_file          *)

\* base64.b64decode of a well-formed encoding; anything else raises
RECURSIVE b64decode(_)
b64decode(cs) ==
    IF Len(cs) = 0 THEN [ok |-> TRUE, bytes |-> <<>>]
    ELSE IF Len(cs) < 4 \/ cs[1] = B64Pad \/ cs[2] = B64Pad
              \/ (cs[3] = B64Pad /\ cs[4] # B64Pad)
              \/ ((cs[3] = B64Pad \/ cs[4] = B64Pad) /\ Len(cs) > 4)
         THEN [ok |-> FALSE, bytes |-> <<>>]
    ELSE LET rest == b64decode(SubSeq(cs, 5, Len(cs)))
             b1 == cs[1] * 4 + cs[2] \div 16
             b2 == (cs[2] % 16) * 16 + cs[3] \div 4
             b3 == (cs[3] % 4) * 64 + cs[4]
             here == IF cs[3] = B64Pad THEN <<b1>>
                     ELSE IF cs[4] = B64Pad THEN <<b1, b2>>
                     ELSE <<b1, b2, b3>>
         IN  [ok |-> rest.ok, bytes |-> IF rest.ok THEN here \o rest.bytes ELSE <<>>]

\* an icon the remote holds as a link instead of a data URL
HostedIcon == [href |-> "https://cdn/icon"]

extension_map(mime) ==
    CASE mime = "image/png" -> "png"
      [] mime = "image/svg+xml" -> "svg"
      [] OTHER -> None

\* lines 127-157, without the write: the extension and the decoded bytes, or the error
save_data_url_to_file(data_url) ==
    IF "href" \in DOMAIN data_url
    THEN [ok |-> FALSE, err |-> "Invalid data URL", ext |-> None, bytes |-> <<>>]
    ELSE IF data_url.mime = None \/ data_url.mime = "" \/ data_url.b64 = <<>>
    THEN [ok |-> FALSE, err |-> "Invalid data URL format", ext |-> None, bytes |-> <<>>]
    ELSE IF extension_map(data_url.mime) = None
    THEN [ok |-> FALSE, err |-> "Unsupported MIME type", ext |-> None, bytes |-> <<>>]
    ELSE IF ~b64decode(data_url.b64).ok
    THEN [ok |-> FALSE, err |-> "Incorrect padding", ext |-> None, bytes |-> <<>>]
    ELSE [ok |-> TRUE, err |-> None, ext |-> extension_map(data_url.mime),
          bytes |-> b64decode(data_url.b64).bytes]

\* `if config.icon_url:`
IconPresent(u) == u # NoData

\* a category of the SDK models that is None
NoCategoryOf(kind) == <<kind, None>>

\* a category tag that is no member of the SDK enum: the client library either rejects
\* the response or hands the tag over as a plain string, whose .value raises
IsUnknownTag(c) == c[2] # None /\ c[2] \notin DatasourceCategory

\* `x.value if x else "KNOWLEDGE_HUB"` of lines 903 and 1006
ExportedCategory(c) == IF c[2] # None THEN c[2] ELSE "KNOWLEDGE_HUB"

\* the contents of an Optional list, empty when it is None
ListOf(opt) == IF opt.some THEN opt.v ELSE <<>>

\* lines 833 and 862: the tables shown before anything is saved read .value of every
\* category that is set
DisplayRaises(rec) ==
    \/ IsUnknownTag(rec.datasource_category)
    \/ \E i \in DOMAIN ListOf(rec.object_definitions) :
           IsUnknownTag(ListOf(rec.object_definitions)[i].doc_category)

\* lines 909-926: one entry of property_definitions; every key but the name is written
\* only for a value that is set, ui_facet_order for any value that is not None
ExportedProperty(prop) ==
    [keys |-> {"name"}
              \cup {k \in {"display_label", "display_label_plural", "property_type",
                            "ui_options", "group"} : prop[k] # None /\ prop[k] # ""}
              \cup {k \in {"hide_ui_facet", "skip_indexing"} : prop[k]}
              \cup (IF prop.ui_facet_order.some THEN {"ui_facet_order"} ELSE {}),
     name |-> prop.name,
     display_label |-> prop.display_label,
     display_label_plural |-> prop.display_label_plural,
     property_type |-> prop.property_type,
     ui_options |-> prop.ui_options,
     hide_ui_facet |-> prop.hide_ui_facet,
     ui_facet_order |-> prop.ui_facet_order,
     skip_indexing |-> prop.skip_indexing,
     group |-> prop.group]

\* lines 933-936: one entry of property_groups
ExportedGroup(group) ==
    [keys |-> {"name"} \cup (IF group.display_label # None /\ group.display_label # ""
                             THEN {"display_label"} ELSE {}),
     name |-> group.name,
     display_label |-> group.display_label]

\* the entry with both lists under their keys whatever they hold
ExportedObject_AllKeys(o) ==
    [keys |-> {"name", "display_label", "doc_category", "summarizable",
               "property_definitions", "property_groups"},
     name |-> o.name,
     display_label |-> IF o.display_label # "" THEN o.display_label ELSE o.name,
     doc_category |-> ExportedCategory(o.doc_category),
     summarizable |-> o.summarizable,
     property_definitions |-> [i \in DOMAIN ListOf(o.property_definitions) |->
                                  ExportedProperty(ListOf(o.property_definitions)[i])],
     property_groups |-> [i \in DOMAIN ListOf(o.property_groups) |->
                             ExportedGroup(ListOf(o.property_groups)[i])]]

\* lines 903-939: one entry of objectTypes
ExportedObject(o) ==
    [keys |-> {"name", "display_label", "doc_category", "summarizable"}
              \cup (IF ListOf(o.property_definitions) # <<>>
                    THEN {"property_definitions"} ELSE {})
              \cup (IF ListOf(o.property_groups) # <<>> THEN {"property_groups"} ELSE {}),
     name |-> o.name,
     display_label |-> IF o.display_label # "" THEN o.display_label ELSE o.name,
     doc_category |-> ExportedCategory(o.doc_category),
     summarizable |-> o.summarizable,
     property_definitions |-> [i \in DOMAIN ListOf(o.property_definitions) |->
                                  ExportedProperty(ListOf(o.property_definitions)[i])],
     property_groups |-> [i \in DOMAIN ListOf(o.property_groups) |->
                             ExportedGroup(ListOf(o.property_groups)[i])]]

\* lines 950-987: one entry of quicklinks; a key is written for a value that is set
ExportedQuicklink(q) ==
    [keys |-> {k \in {"name", "short_name", "url", "id"} : q[k] # None /\ q[k] # ""}
              \cup (IF q.icon_config.some /\ q.icon_config.v.keys # {}
                    THEN {"icon_config"} ELSE {})
              \cup (IF ListOf(q.scopes) # <<>> THEN {"scopes"} ELSE {}),
     name |-> q.name,
     short_name |-> q.short_name,
     url |-> q.url,
     id |-> q.id,
     icon_config |-> IF q.icon_config.some THEN q.icon_config.v ELSE [keys |-> {}],
     scopes |-> ListOf(q.scopes)]

ExportedQuicklinks(rec) ==
    LET all == [i \in DOMAIN ListOf(rec.quicklinks) |->
                   ExportedQuicklink(ListOf(rec.quicklinks)[i])]
    IN  Filter(all, {q \in {all[i] : i \in DOMAIN all} : q.keys # {}})

\* the env file with the credential of the run in its key field
EnvFileOf_KeepsKey(e, rec, id, light, dark) ==
    [glean_instance_name |-> e["glean_instance_name"],
     glean_indexing_api_key |-> e["glean_indexing_api_key"],
     glean_datasource_display_name |-> rec.display_name,
     glean_datasource_id |-> id,
     glean_datasource_category |-> ExportedCategory(rec.datasource_category),
     glean_datasource_home_url |-> rec.home_url,
     glean_datasource_url_regex |-> rec.url_regex,
     glean_datasource_icon_filename_lightmode |->
         IF light # None THEN light ELSE "icon-lightmode.png",
     glean_datasource_icon_filename_darkmode |->
         IF dark # None THEN dark ELSE "icon-darkmode.png",
     glean_datasource_user_referenced_by_email |-> rec.is_user_referenced_by_email,
     glean_datasource_is_test_mode |-> rec.is_test_datasource,
     glean_datasource_suggestion_text |-> rec.suggestion_text]

\* lines 999-1023: the text of <id>.env, for the settings assembled from environment e
EnvFileOf(e, rec, id, light, dark) ==
    [glean_instance_name |-> e["glean_instance_name"],
     glean_indexing_api_key |-> "",
     glean_datasource_display_name |-> rec.display_name,
     glean_datasource_id |-> id,
     glean_datasource_category |-> ExportedCategory(rec.datasource_category),
     glean_datasource_home_url |-> rec.home_url,
     glean_datasource_url_regex |-> rec.url_regex,
     glean_datasource_icon_filename_lightmode |->
         IF light # None THEN light ELSE "icon-lightmode.png",
     glean_datasource_icon_filename_darkmode |->
         IF dark # None THEN dark ELSE "icon-darkmode.png",
     glean_datasource_user_referenced_by_email |-> rec.is_user_referenced_by_email,
     glean_datasource_is_test_mode |-> rec.is_test_datasource,
     glean_datasource_suggestion_text |-> rec.suggestion_text]

EnvFile(rec, id, light, dark) == EnvFileOf(env, rec, id, light, dark)

\* f"{stem}.{ext}"
IconFileName(stem, ext) ==
    CASE stem = "icon-lightmode" /\ ext = "png" -> DefaultLight
      [] stem = "icon-lightmode" /\ ext = "svg" -> "icon-lightmode.svg"
      [] stem = "icon-darkmode" /\ ext = "png" -> DefaultDark
      [] stem = "icon-darkmode" /\ ext = "svg" -> "icon-darkmode.svg"

\* a file of the export directory <id>-config; "." is the directory itself
InDir(id, name) == <<id, name>>

\* a write that appends to a JSON list or to the bytes already in the file
Written_Appends(id, name, content) ==
    IF InDir(id, name) \in DOMAIN disk /\ name \notin {".", "env"}
    THEN [disk EXCEPT ![InDir(id, name)] = @ \o content]
    ELSE (InDir(id, name) :> content) @@ disk

\* open(path, "w") or "wb" and one write: the file holds the content and nothing else
Written(id, name, content) == (InDir(id, name) :> content) @@ disk

\* the line logged by the handler of line 1041
RetrieveFailure(id) == FieldError("<none>", "Failed to retrieve datasource")

PullFails(id) ==
    /\ reported' = reported \cup {RetrieveFailure(id)}
    /\ pc' = "pull-failed"

\* the retrieval with the export directory made before --save is looked at
PullRetrieve_MakesDirectory(id, save, out) ==
    /\ pc = "pull"
    /\ out \in RetrieveOutcomes(id)
    /\ existing' = out
    /\ result' = [kind |-> "pull", id |-> id, save |-> save, light |-> None, dark |-> None]
    /\ IF out.kind # "record" \/ DisplayRaises(out.rec)
       THEN PullFails(id) /\ UNCHANGED disk
       ELSE /\ pc' = IF save THEN "save-light" ELSE "pull-done"
            /\ disk' = Written(id, ".", <<"directory">>)
            /\ UNCHANGED reported
    /\ UNCHANGED <<world, env, origin, warnings, remote, silent, forceFlag, lightRes,
                   darkRes, payload, outcome, returned, failure, exitCode, before, calls,
                   hist>>

\* lines 819-875: the retrieval, the tables, and with --save the export directory
PullRetrieve(id, save, out) ==
    /\ pc = "pull"
    /\ out \in RetrieveOutcomes(id)
    /\ existing' = out
    /\ result' = [kind |-> "pull", id |-> id, save |-> save, light |-> None, dark |-> None]
    /\ IF out.kind # "record" \/ DisplayRaises(out.rec)
       THEN PullFails(id) /\ UNCHANGED disk
       ELSE /\ pc' = IF save THEN "save-light" ELSE "pull-done"
            /\ disk' = IF save THEN Written(id, ".", <<"directory">>) ELSE disk
            /\ UNCHANGED reported
    /\ UNCHANGED <<world, env, origin, warnings, remote, silent, forceFlag, lightRes,
                   darkRes, payload, outcome, returned, failure, exitCode, before, calls,
                   hist>>

\* lines 880-894: one icon; any error, the write's included, becomes a warning
SaveIconStep(url, stem, local, nextPc, ioFails) ==
    LET saved == save_data_url_to_file(url)
    IN  /\ pc' = nextPc
        /\ IF ~IconPresent(url) THEN UNCHANGED <<disk, result, warnings>>
           ELSE IF saved.ok /\ ~ioFails
           THEN /\ disk' = Written(result.id, IconFileName(stem, saved.ext), saved.bytes)
                /\ result' = [result EXCEPT ![local] = IconFileName(stem, saved.ext)]
                /\ UNCHANGED warnings
           ELSE /\ warnings' = warnings \cup {[msg |-> "Could not save icon", file |-> stem]}
                /\ UNCHANGED <<disk, result>>
        /\ UNCHANGED <<world, env, origin, reported, remote, silent, forceFlag, existing,
                       lightRes, darkRes, payload, outcome, returned, failure, exitCode,
                       before, calls, hist>>

SaveLightIcon(ioFails) ==
    /\ pc = "save-light"
    /\ SaveIconStep(existing.rec.icon_url, "icon-lightmode", "light", "save-dark", ioFails)

SaveDarkIcon(ioFails) ==
    /\ pc = "save-dark"
    /\ SaveIconStep(existing.rec.icon_dark_url, "icon-darkmode", "dark", "save-objects",
                    ioFails)

\* a file written by open(...) and json.dump or f.write; an error of the write leaves the
\* function through the handler of line 1041
WriteStep(name, wanted, content, nextPc, ioFails) ==
    /\ IF ~wanted THEN pc' = nextPc /\ UNCHANGED <<disk, reported>>
       ELSE IF ioFails THEN PullFails(result.id) /\ UNCHANGED disk
       ELSE /\ disk' = Written(result.id, name, content)
            /\ pc' = nextPc
            /\ UNCHANGED reported
    /\ UNCHANGED <<world, env, origin, warnings, result, remote, silent, forceFlag,
                   existing, lightRes, darkRes, payload, outcome, returned, failure,
                   exitCode, before, calls, hist>>

\* lines 897-945
SaveObjectTypes(ioFails) ==
    /\ pc = "save-objects"
    /\ LET objs == ListOf(existing.rec.object_definitions)
       IN  WriteStep("object_types.json", objs # <<>>,
                     [i \in DOMAIN objs |-> ExportedObject(objs[i])],
                     "save-quicklinks", ioFails)

\* lines 948-993
SaveQuickLinks(ioFails) ==
    /\ pc = "save-quicklinks"
    /\ WriteStep("quick_links.json", ExportedQuicklinks(existing.rec) # <<>>,
                 ExportedQuicklinks(existing.rec), "save-env", ioFails)

\* lines 996-1026
SaveEnvFile(ioFails) ==
    /\ pc = "save-env"
    /\ WriteStep("env", TRUE,
                 EnvFile(existing.rec, result.id, result.light, result.dark),
                 "pull-done", ioFails)

\* the names save_data_url_to_file can give the two icons
ExportIconNames == {DefaultLight, "icon-lightmode.svg", DefaultDark, "icon-darkmode.svg"}

\* lines 278-302 over the variables of an exported env file: the commented line of the
\* test emails and the two icon URLs are not in it and take their defaults
SettingsOfExport(file) ==
    [id |-> file.glean_datasource_id,
     display_name |-> file.glean_datasource_display_name,
     category |-> file.glean_datasource_category,
     home_url |-> file.glean_datasource_home_url,
     url_regex |-> file.glean_datasource_url_regex,
     suggestion_text |-> file.glean_datasource_suggestion_text,
     icon_filename_lightmode |-> file.glean_datasource_icon_filename_lightmode,
     icon_url_lightmode |-> None,
     icon_filename_darkmode |-> file.glean_datasource_icon_filename_darkmode,
     icon_url_darkmode |-> None,
     user_referenced_by_email |-> file.glean_datasource_user_referenced_by_email,
     is_test_mode |-> file.glean_datasource_is_test_mode,
     test_user_emails |-> <<>>]

\* the exported JSON file of a name, as the loaders of lines 160-187 find it
ExportedJson(id, name) ==
    IF InDir(id, name) \in DOMAIN disk THEN JsonFile("ok", disk[InDir(id, name)])
    ELSE JsonFile("absent", <<>>)

\* a later process run from the export directory, with the exported env file as its
\* environment: DatasourceSettings() is assembled there and its properties read the
\* directory's icons and JSON files
AssembleFromExport ==
    /\ pc = "pull-done"
    /\ result.save
    /\ LET file == disk[InDir(result.id, "env")]
       IN  /\ env' = [f \in DOMAIN file \cup {"names"} |->
                         IF f = "names" THEN DOMAIN file ELSE file[f]]
           /\ settings' = SettingsOfExport(file)
    /\ fs' = [n \in {m \in ExportIconNames : InDir(result.id, m) \in DOMAIN disk} |->
                 disk[InDir(result.id, n)]]
    /\ objFile' = ExportedJson(result.id, "object_types.json")
    /\ qlFile' = ExportedJson(result.id, "quick_links.json")
    /\ result' = [kind |-> "reassembled", id |-> result.id, original |-> settings]
    /\ pc' = "reassembled"
    /\ UNCHANGED <<net, origin, reported, warnings, disk, remote, silent, forceFlag,
                   existing, lightRes, darkRes, payload, outcome, returned, failure,
                   exitCode, before, calls, hist>>

ObjectsOf(items) == Some([i \in DOMAIN items |-> ObjectDefinitionOf(items[i])])

\* a property definition of the remote with every optional attribute set, and one with
\* none of them set
StatusProperty ==
    [name |-> "status", display_label |-> "Status", display_label_plural |-> "Statuses",
     property_type |-> "PICKLIST", ui_options |-> "SEARCH_RESULT", hide_ui_facet |-> TRUE,
     ui_facet_order |-> Some(0), skip_indexing |-> TRUE, group |-> "main"]

BareProperty ==
    [name |-> "note", display_label |-> "", display_label_plural |-> None,
     property_type |-> None, ui_options |-> None, hide_ui_facet |-> FALSE,
     ui_facet_order |-> Nothing, skip_indexing |-> FALSE, group |-> ""]

\* remote records as earlier pushes or other clients left them
PullRecords ==
    {[OldRecord("ds-a") EXCEPT !.datasource_category = cat,
                               !.icon_url = light,
                               !.icon_dark_url = dark,
                               !.object_definitions = objs,
                               !.quicklinks = qls] :
        cat \in {GleanDatasourceCategory("CRM"), GleanDatasourceCategory("WIKI"),
                 NoCategoryOf("DatasourceCategory")},
        light \in {DataUrl("image/png", b64encode(PngBytes)),
                   DataUrl("image/jpeg", b64encode(AltBytes)), HostedIcon},
        dark \in {NoData, DataUrl("image/svg+xml", b64encode(SvgBytes)),
                  DataUrl("image/png", <<>>)},
        objs \in {Nothing, Some(<<>>), ObjectsOf(<<TicketObject>>),
                  Some(<<[ObjectDefinitionOf(TicketObject)
                             EXCEPT !.property_definitions =
                                        Some(<<StatusProperty, BareProperty>>),
                                    !.property_groups =
                                        Some(<<[name |-> "main", display_label |-> ""],
                                               [name |-> "more",
                                                display_label |-> "More"]>>)]>>),
                  Some(<<[ObjectDefinitionOf(TicketObject)
                             EXCEPT !.property_definitions = Some(<<>>),
                                    !.property_groups = Some(<<>>),
                                    !.display_label = ""]>>),
                  Some(<<[ObjectDefinitionOf(TicketObject)
                             EXCEPT !.doc_category = NoCategoryOf("DocCategory")]>>),
                  Some(<<[ObjectDefinitionOf(TicketObject)
                             EXCEPT !.doc_category = DocCategory("WIKI")]>>)},
        qls \in {Nothing, Some(<<QuicklinkOf(NewIssueLink)>>)}}

\* the credentials a pull is run with
ApiKeys == {"key", "other-key"}

PullInit ==
    /\ \E key \in ApiKeys :
           env = Env(SettingsFields, key, "acme", <<"DS", " ", "A">>, "ds-a", "CRM",
                     <<"https://app.example.com">>)
    /\ settings = DatasourceSettingsOf(env)
    /\ pc = "pull"
    /\ fs = FsWith({})
    /\ net = NetAllDown
    /\ objFile = JsonFile("absent", <<>>)
    /\ qlFile = JsonFile("absent", <<>>)
    /\ \E rec \in PullRecords \cup {NoRecord} :
           remote = [i \in Ids |-> IF rec = NoRecord THEN NoRecord
                                   ELSE [rec EXCEPT !.name = i]]
    /\ silent = FALSE
    /\ forceFlag = FALSE
    /\ existing = ReturnedNone
    /\ lightRes = Unevaluated
    /\ darkRes = Unevaluated
    /\ payload = NoPayload
    /\ outcome = "NotCalled"
    /\ returned = FALSE
    /\ failure = NoFailure
    /\ exitCode = 0
    /\ before = NoRecord
    /\ calls = <<>>
    /\ hist = <<>>
    /\ origin = "env"
    /\ reported = {}
    /\ warnings = {}
    /\ result = NoOutput
    /\ disk = <<>>

PullNext ==
    \/ \E save \in BOOLEAN,
          out \in {Raised, ReturnedNone} \cup {Found(remote[i]) : i \in Ids} :
           PullRetrieve("ds-a", save, out)
    \/ \E ioFails \in BOOLEAN : SaveLightIcon(ioFails)
    \/ \E ioFails \in BOOLEAN : SaveDarkIcon(ioFails)
    \/ \E ioFails \in BOOLEAN : SaveObjectTypes(ioFails)
    \/ \E ioFails \in BOOLEAN : SaveQuickLinks(ioFails)
    \/ \E ioFails \in BOOLEAN : SaveEnvFile(ioFails)
    \/ AssembleFromExport

PullSpec == PullInit /\ [][PullNext]_vars

-----------------------------------------------------------------------------
(* The round trip: a silent forced push of a valid configuration, the pull   *)
(* of the record it left, and assembly from the export                       *)

\* the config command run after a push that succeeded, with the same environment
ConfigAfterPush ==
    /\ pc = "exited"
    /\ returned
    /\ pc' = "pull"
    /\ UNCHANGED <<world, aux, warnings, remote, silent, forceFlag, existing, lightRes,
                   darkRes, payload, outcome, returned, failure, exitCode, before, calls,
                   hist>>

TripInit ==
    /\ env = Env(SettingsFields, "key", "acme", <<"My App">>, "ds-a", "CRM",
                 <<"https://app.example.com", "/", "dash", "/">>)
    /\ \E light \in {<<None, None>>, <<"logo.png", None>>, <<None, "https://cdn/i.svg">>},
          du \in {None, "https://cdn/dark"}, flag \in BOOLEAN,
          re \in {<<>>, <<"https://app.example.com/docs/.*">>},
          emails \in {<<>>, <<"qa@example.com">>} :
           settings = [BaseSettings("ds-a", "CRM", light[1], light[2], None, du, flag)
                          EXCEPT !.url_regex = re, !.test_user_emails = emails]
    /\ fs = FsWith({"logo.png", DefaultLight})
    /\ net = NetUp
    /\ objFile \in {JsonFile("absent", <<>>), JsonFile("ok", <<TicketObject>>),
                    JsonFile("ok", <<TicketObject, BareObject>>)}
    /\ qlFile \in {JsonFile("absent", <<>>), JsonFile("ok", <<NewIssueLink>>)}
    /\ remote = [i \in Ids |-> NoRecord]
    /\ InitRun
    /\ origin = "env"
    /\ reported = {}
    /\ warnings = {}
    /\ result = NoOutput
    /\ disk = <<>>

TripNext ==
    \/ StartRun(TRUE, TRUE)
    \/ \E out \in {Raised, ReturnedNone} \cup {Found(remote[i]) : i \in Ids} :
           SilentPreCheck(out)
    \/ \E out \in {Raised, ReturnedNone} \cup {Found(remote[i]) : i \in Ids} :
           CheckExistence(out)
    \/ Prepare
    \/ \E raises \in BOOLEAN : Upsert(raises)
    \/ CallerHandlesResult
    \/ ConfigAfterPush
    \/ \E save \in BOOLEAN,
          out \in {Raised, ReturnedNone} \cup {Found(remote[i]) : i \in Ids} :
           PullRetrieve(settings.id, save, out)
    \/ \E ioFails \in BOOLEAN : SaveLightIcon(ioFails)
    \/ \E ioFails \in BOOLEAN : SaveDarkIcon(ioFails)
    \/ \E ioFails \in BOOLEAN : SaveObjectTypes(ioFails)
    \/ \E ioFails \in BOOLEAN : SaveQuickLinks(ioFails)
    \/ \E ioFails \in BOOLEAN : SaveEnvFile(ioFails)
    \/ AssembleFromExport

TripSpec == TripInit /\ [][TripNext]_vars

-----------------------------------------------------------------------------
(* Properties of the pull path, checked under PullSpec *)

\* the record retrieval handed to the pull
Pulled == result # NoOutput /\ result.kind = "pull" /\ existing.kind = "record"

\* a category of the record, or of one of its object definitions, is absent or unknown
CategoryUnusable(rec) ==
    \/ rec.datasource_category[2] \notin DatasourceCategory
    \/ \E i \in DOMAIN ListOf(rec.object_definitions) :
           ListOf(rec.object_definitions)[i].doc_category[2] \notin DatasourceCategory

\* the exported files that carry a category
CategoryFiles(id) == {InDir(id, "env"), InDir(id, "object_types.json")}

\* C18: on the pull path, a remote record whose category tag (the datasource category or
\* an object definition's doc category) is unknown or absent makes the pull fail with a
\* mapping error; the exporter never silently substitutes a default category in the
\* files it writes.
C18_UnusableCategoryFailsPull ==
    (Pulled /\ CategoryUnusable(existing.rec)) =>
        /\ pc = "pull-failed"
        /\ CategoryFiles(result.id) \cap DOMAIN disk = {}

\* the environment validates but for its category, which is no member of the enum
OnlyCategoryUnknown ==
    /\ "glean_datasource_category" \in env.names
    /\ env["glean_datasource_category"] \notin DatasourceCategory
    /\ OffendingFields = {"glean_datasource_category"}

\* both SDK maps have an entry of the same name for each of the 15 values
MappingTotal ==
    \A c \in DatasourceCategory :
        /\ DATASOURCE_CATEGORY_MAP_get(c) = GleanDatasourceCategory(c)
        /\ DOCUMENT_CATEGORY_MAP_get(c) = DocCategory(c)

\* each object definition is sent under its own category when that is one of the 15
\* values and under KNOWLEDGE_HUB when it is another tag or the key is missing
DocCategoriesDefaulted ==
    Prepared =>
        /\ payload.object_definitions # Nothing
        /\ \A i \in DOMAIN objFile.items :
               payload.object_definitions.v[i].doc_category =
                   IF "doc_category" \in objFile.items[i].keys
                         /\ objFile.items[i].doc_category \in DatasourceCategory
                   THEN DocCategory(objFile.items[i].doc_category)
                   ELSE DocCategory("KNOWLEDGE_HUB")

\* C19 as stated: on the push path, the category mapping is total over the 15-value set
\* and every unknown or unspecified category (the datasource category, or an object
\* definition's doc_category) is sent to the remote as KNOWLEDGE_HUB instead of failing
\* the push.
C19_UnknownCategoryDefaults ==
    /\ MappingTotal
    /\ DocCategoriesDefaulted
    /\ (Assembled /\ "glean_datasource_category" \notin env.names /\ Prepared
           /\ origin = "env") =>
           payload.datasource_category = GleanDatasourceCategory("KNOWLEDGE_HUB")
    /\ (Assembled /\ OnlyCategoryUnknown) =>
           /\ pc # "invalid"
           /\ Prepared =>
                  payload.datasource_category = GleanDatasourceCategory("KNOWLEDGE_HUB")

\* C19, amended: on the push path, the category mapping is total over the 15-value set,
\* and every unknown or unspecified doc_category of an object definition, and an
\* unspecified datasource category, is sent to the remote as KNOWLEDGE_HUB instead of
\* failing the push. An unknown datasource category never reaches the push: assembly
\* rejects it with a validation error naming the category field, and a silent run ends
\* there without an upsert.
C19_UnknownDocCategoryDefaults ==
    /\ MappingTotal
    /\ DocCategoriesDefaulted
    /\ (Assembled /\ "glean_datasource_category" \notin env.names /\ Prepared
           /\ origin = "env") =>
           payload.datasource_category = GleanDatasourceCategory("KNOWLEDGE_HUB")
    /\ Prepared => payload.datasource_category[2] \in DatasourceCategory
    /\ (Assembled /\ OnlyCategoryUnknown) =>
           /\ \A err \in result.errors : err.field = "glean_datasource_category"
           /\ result.errors # {}
           /\ origin = "env" => settings = NoSettings
           /\ silent => (pc = "invalid" /\ ~UpsertInvoked)

\* a push created with no category in the environment, an object definition of an
\* unknown category and one without a category
C19_Witness ==
    /\ outcome = "Created"
    /\ origin = "env"
    /\ "glean_datasource_category" \notin env.names
    /\ remote[settings.id] # NoRecord
    /\ remote[settings.id].datasource_category = GleanDatasourceCategory("KNOWLEDGE_HUB")
    /\ objFile.items[2].doc_category = "WIKI"
    /\ "doc_category" \notin objFile.items[3].keys
    /\ \A i \in {2, 3} : remote[settings.id].object_definitions.v[i].doc_category
                            = DocCategory("KNOWLEDGE_HUB")

\* C20: the three disallowed categories PEOPLE, EXTERNAL_SHORTCUT and UNCATEGORIZED are
\* accepted by environment-driven assembly and pushed like any other category, while the
\* interactive choice list never offers them, so a configuration built interactively
\* always has one of the 12 usable categories.
C20_DisallowedOnlyInteractively ==
    /\ (Assembled /\ "glean_datasource_category" \in env.names
           /\ env["glean_datasource_category"] \in {"PEOPLE", "EXTERNAL_SHORTCUT",
                                                    "UNCATEGORIZED"}) =>
           /\ \A err \in result.errors : err.field # "glean_datasource_category"
           /\ (settings # NoSettings /\ origin = "env") =>
                  /\ settings.category = env["glean_datasource_category"]
                  /\ Prepared => payload.datasource_category =
                         GleanDatasourceCategory(env["glean_datasource_category"])
    /\ origin = "interactive" =>
           /\ settings.category \in DatasourceCategory
           /\ settings.category \notin {"PEOPLE", "EXTERNAL_SHORTCUT", "UNCATEGORIZED"}
           /\ Prepared => payload.datasource_category =
                  GleanDatasourceCategory(settings.category)

\* an environment naming PEOPLE, pushed and stored under that category
C20_Witness ==
    /\ outcome = "Created"
    /\ origin = "env"
    /\ env["glean_datasource_category"] = "PEOPLE"
    /\ remote[settings.id] # NoRecord
    /\ remote[settings.id].datasource_category = GleanDatasourceCategory("PEOPLE")

\* the steps of a pull with save, in the order of the code; each produces one artifact
ArtifactSteps == <<"save-light", "save-dark", "save-objects", "save-quicklinks", "save-env">>

\* the step that follows step i, or the end of the pull after the last
StepAfter(i) == IF i < Len(ArtifactSteps) THEN ArtifactSteps[i + 1] ELSE "pull-done"

\* C21: during a pull with save, each artifact (light icon, dark icon, object-definitions
\* file, quick-links file, env file) is attempted independently: whatever happens while
\* one artifact is produced, the pull goes on to the next artifact, and a failure is
\* reported for that artifact alone and never as a failed retrieval.
C21_ArtifactsIndependent ==
    [][\A i \in DOMAIN ArtifactSteps :
           pc = ArtifactSteps[i] =>
               /\ pc' = StepAfter(i)
               /\ RetrieveFailure(result.id) \notin reported']_vars

\* the environment of the run with another credential in it
WithKey(key) == [env EXCEPT !["glean_indexing_api_key"] = key]

\* the pull has written its env file
EnvFileWritten == Pulled /\ result.save /\ pc = "pull-done"

\* C22: the exported env file always has a blank API-key field, and what a pull writes
\* is the same under every credential: the env file on disk is the one a run with any
\* other credential writes for the same record, so the credential is never round-tripped.
C22_CredentialNeverExported ==
    EnvFileWritten =>
        /\ InDir(result.id, "env") \in DOMAIN disk
        /\ disk[InDir(result.id, "env")].glean_indexing_api_key = ""
        /\ \A key \in ApiKeys :
               disk[InDir(result.id, "env")] =
                   EnvFileOf(WithKey(key), existing.rec, result.id, result.light,
                             result.dark)

\* an env file written by a run whose credential is not blank
C22_Witness ==
    /\ EnvFileWritten
    /\ env["glean_indexing_api_key"] = "other-key"
    /\ InDir(result.id, "env") \in DOMAIN disk
    /\ disk[InDir(result.id, "env")].glean_indexing_api_key = ""

\* a pull with save that has passed the step of the object-definitions file
PastObjectTypes ==
    Pulled /\ result.save /\ pc \in {"save-quicklinks", "save-env", "pull-done"}

\* a text or tag attribute of the remote that is set
IsSet(v) == v # None /\ v # ""

\* an exported property carries an optional key exactly when the remote value is set
PropertyMinimal(p, rp) ==
    /\ p.name = rp.name
    /\ \A k \in {"display_label", "display_label_plural", "property_type", "ui_options",
                 "group"} : (k \in p.keys <=> IsSet(rp[k])) /\ p[k] = rp[k]
    /\ \A k \in {"hide_ui_facet", "skip_indexing"} : k \in p.keys <=> rp[k]
    /\ "ui_facet_order" \in p.keys <=> rp.ui_facet_order.some

\* an exported object carries each of its two lists exactly when the remote list has an
\* entry, and then entry by entry
ObjectMinimal(o, ro) ==
    /\ Len(o.property_definitions) = Len(ListOf(ro.property_definitions))
    /\ Len(o.property_groups) = Len(ListOf(ro.property_groups))
    /\ "property_definitions" \in o.keys <=> ListOf(ro.property_definitions) # <<>>
    /\ "property_groups" \in o.keys <=> ListOf(ro.property_groups) # <<>>
    /\ \A j \in DOMAIN o.property_definitions :
           PropertyMinimal(o.property_definitions[j], ListOf(ro.property_definitions)[j])
    /\ \A j \in DOMAIN o.property_groups :
           "display_label" \in o.property_groups[j].keys
               <=> IsSet(ListOf(ro.property_groups)[j].display_label)

\* C23: the exporter writes object_types.json if and only if the remote record has at
\* least one object definition, and in the file each object definition and property
\* omits every optional sub-field (property definitions, property groups, labels, flags)
\* whose remote value is empty rather than emitting an empty container.
C23_ObjectTypesMinimal ==
    PastObjectTypes =>
        LET objs == ListOf(existing.rec.object_definitions)
            file == InDir(result.id, "object_types.json")
        IN  /\ file \in DOMAIN disk <=> objs # <<>>
            /\ file \in DOMAIN disk =>
                   /\ Len(disk[file]) = Len(objs)
                   /\ \A i \in DOMAIN objs : ObjectMinimal(disk[file][i], objs[i])

\* a finished export whose one object has a property and a group with nothing optional set
C23_Witness ==
    /\ PastObjectTypes
    /\ pc = "pull-done"
    /\ InDir(result.id, "object_types.json") \in DOMAIN disk
    /\ LET o == disk[InDir(result.id, "object_types.json")][1]
       IN  /\ Len(o.property_definitions) = 2
           /\ o.property_definitions[2].keys = {"name"}
           /\ "ui_facet_order" \in o.property_definitions[1].keys
           /\ o.property_groups[1].keys = {"name"}

\* a finished export of a record whose list of object definitions is empty
C23_WitnessNoFile ==
    /\ PastObjectTypes
    /\ pc = "pull-done"
    /\ existing.rec.object_definitions = Some(<<>>)
    /\ InDir(result.id, "object_types.json") \notin DOMAIN disk

\* the configuration was pushed, pulled with save, and assembled from the export
Reassembled == result # NoOutput /\ result.kind = "reassembled"

\* what a push of the re-assembled configuration sends is what the first push sent: the
\* category, the URLs, the effective URL regex and suggestion text, the identity and test
\* modes, the icons as data URLs, the object definitions and the quick links
SamePayloadAgain ==
    /\ ~ObjectDefsRaise
    /\ icon_url.ok
    /\ icon_dark_url.ok
    /\ AddArguments(icon_url.val, icon_dark_url.val) = payload

\* C24: round trip: for every valid configuration, pushing it, pulling the resulting
\* remote record with save, and assembling from the exported files yields a record equal to
\* the original in every field (category, URLs, URL regex, suggestion text, identity mode,
\* test mode and test emails, icons, object definitions including summarizable, quick
\* links) except the credential, which is blank.
C24_RoundTrip ==
    Reassembled =>
        /\ SamePayloadAgain
        /\ settings.test_user_emails = result.original.test_user_emails
        /\ env["glean_indexing_api_key"] = ""

-----------------------------------------------------------------------------
(* Pull with save run again into the directory an earlier run left; between  *)
(* the runs another client may have removed the record's object definitions  *)

\* the config command started again after a pull with save has ended
PullAgain(dropped) ==
    /\ pc \in {"pull-done", "pull-failed"}
    /\ result.kind = "pull"
    /\ result.save
    /\ Len(hist) < MaxRuns - 1
    /\ hist' = Append(hist, [outcome |-> pc, disk |-> disk, remote |-> remote])
    /\ remote' = IF dropped /\ remote[result.id] # NoRecord
                 THEN [i \in Ids |-> [remote[i] EXCEPT !.object_definitions = Nothing]]
                 ELSE remote
    /\ pc' = "pull"
    /\ warnings' = {}
    /\ reported' = {}
    /\ UNCHANGED <<world, env, origin, result, disk, silent, forceFlag, existing, lightRes,
                   darkRes, payload, outcome, returned, failure, exitCode, before, calls>>

RepullNext ==
    \/ PullNext
    \/ \E dropped \in BOOLEAN : PullAgain(dropped)

RepullSpec == PullInit /\ [][RepullNext]_vars

-----------------------------------------------------------------------------
(* Properties of a repeated pull, checked under RepullSpec *)

\* the name a run without write errors gives an icon, None when it saves none
IconNameOf(url, stem) ==
    IF IconPresent(url) /\ save_data_url_to_file(url).ok
    THEN IconFileName(stem, save_data_url_to_file(url).ext)
    ELSE None

\* the directory a single run without write errors leaves for a record, from nothing
SingleRunExport(rec, id) ==
    LET light == IconNameOf(rec.icon_url, "icon-lightmode")
        dark == IconNameOf(rec.icon_dark_url, "icon-darkmode")
        objs == ListOf(rec.object_definitions)
        names == {".", "env"}
                 \cup (IF light # None THEN {light} ELSE {})
                 \cup (IF dark # None THEN {dark} ELSE {})
                 \cup (IF objs # <<>> THEN {"object_types.json"} ELSE {})
                 \cup (IF ExportedQuicklinks(rec) # <<>> THEN {"quick_links.json"} ELSE {})
    IN  [f \in {InDir(id, n) : n \in names} |->
            CASE f[2] = "." -> <<"directory">>
              [] f[2] = "env" -> EnvFileOf(env, rec, id, light, dark)
              [] f[2] = "object_types.json" -> [i \in DOMAIN objs |-> ExportedObject(objs[i])]
              [] f[2] = "quick_links.json" -> ExportedQuicklinks(rec)
              [] f[2] = light -> save_data_url_to_file(rec.icon_url).bytes
              [] f[2] = dark -> save_data_url_to_file(rec.icon_dark_url).bytes]

\* a pull with save, run after an earlier one, that ended with every write done
RerunSucceeded ==
    /\ hist # <<>>
    /\ Pulled
    /\ result.save
    /\ pc = "pull-done"
    /\ result.light = IconNameOf(existing.rec.icon_url, "icon-lightmode")
    /\ result.dark = IconNameOf(existing.rec.icon_dark_url, "icon-darkmode")

\* C25: re-running pull with save into an already populated (possibly partially
\* populated, after a failed export) <id>-config directory is safe and idempotent: every
\* write overwrites and none appends, so after the re-run the directory holds exactly the
\* artifacts and contents a single successful run for the current remote record produces.
C25_RerunLeavesSingleRunExport ==
    RerunSucceeded => disk = SingleRunExport(existing.rec, result.id)

\* the directory as the run before the current one left it
LeftBefore == hist[Len(hist)].disk

\* no run into the directory has seen another record than the current one
RecordUnchanged == \A i \in DOMAIN hist : hist[i].remote = remote

\* C25, amended: re-running pull with save into an already populated (possibly partially
\* populated, after a failed export) <id>-config directory is safe: every write
\* overwrites and none appends, so after a re-run without write errors every artifact the
\* current remote record produces is in the directory with exactly the contents a single
\* run produces. Files are never removed: what the directory holds beyond that are
\* files of the earlier run, unchanged, and when the record has not changed since the
\* earlier runs there are none, so the directory is exactly the single run's export.
C25_RerunOverwrites ==
    RerunSucceeded =>
        LET want == SingleRunExport(existing.rec, result.id)
        IN  /\ DOMAIN want \subseteq DOMAIN disk
            /\ \A f \in DOMAIN want : disk[f] = want[f]
            /\ \A f \in DOMAIN disk \ DOMAIN want :
                   f \in DOMAIN LeftBefore /\ disk[f] = LeftBefore[f]
            /\ RecordUnchanged => disk = want

\* a re-run that completes the export a failed run left without its quick-links file
C25_Witness ==
    /\ RerunSucceeded
    /\ RecordUnchanged
    /\ hist[1].outcome = "pull-failed"
    /\ InDir(result.id, "object_types.json") \in DOMAIN hist[1].disk
    /\ InDir(result.id, "quick_links.json") \notin DOMAIN hist[1].disk
    /\ InDir(result.id, "quick_links.json") \in DOMAIN disk
    /\ disk = SingleRunExport(existing.rec, result.id)

\* the export directories as they were when the current run began
DiskAtStart == IF hist = <<>> THEN <<>> ELSE LeftBefore

\* the current run of the config command was given no --save
FetchedWithoutSave == result # NoOutput /\ result.kind = "pull" /\ ~result.save

\* C26: fetching a remote configuration without the explicit save request leaves the
\* local filesystem unchanged: no directory is created and no file is written, on success
\* or on failure of the fetch.
C26_NoSaveNoWrite ==
    FetchedWithoutSave =>
        /\ pc \in {"pull-done", "pull-failed"}
        /\ disk = DiskAtStart

\* a record fetched and shown without --save, the directory of an earlier export untouched
C26_Witness ==
    /\ FetchedWithoutSave
    /\ existing.kind = "record"
    /\ pc = "pull-done"
    /\ hist # <<>>
    /\ InDir(result.id, "env") \in DOMAIN disk
    /\ disk = LeftBefore

\* a fetch without --save that failed, with nothing on disk
C26_WitnessFailed ==
    /\ FetchedWithoutSave
    /\ pc = "pull-failed"
    /\ disk = <<>>

-----------------------------------------------------------------------------
(* Properties of silent runs and of the order of a push, checked under Spec *)

\* C27: in silent mode no interactive prompt is ever issued, whatever the remote does: the
\* overwrite confirmation of push is unreachable in silent mode even when the silent-mode
\* pre-check and push's own existence check disagree and --force is not set.
C27_SilentNeverPrompts ==
    silent =>
        /\ pc \notin {"proceed", "confirm"}
        /\ ~HasCall("confirm_proceed")
        /\ ~HasCall("confirm_overwrite")

\* the first remote call of the run, the silent-mode pre-check, returned a record
PreCheckFound ==
    silent /\ calls # <<>> /\ calls[1][1] = "retrieve_config" /\ calls[1][3] = "record"

\* C28: in silent mode, when the pre-check retrieval succeeds with an existing record and
\* --force is not set, the run ends with a failure exit and the remote upsert is never
\* invoked; with --force set, the run goes on to the push, no confirmation is asked, and
\* the upsert is invoked unless preparing the payload fails first.
C28_PreCheckRequiresForce ==
    /\ (PreCheckFound /\ ~forceFlag) =>
           /\ pc = "exited"
           /\ exitCode = 1
           /\ Len(calls) = 1
           /\ ~UpsertInvoked
           /\ remote[settings.id] = before
    /\ (PreCheckFound /\ forceFlag) =>
           /\ pc \notin {"confirm", "proceed"}
           /\ ~HasCall("confirm_overwrite")
           /\ ~HasCall("confirm_proceed")
           /\ pc = "exited" => (UpsertInvoked \/ failure = PrepareFailure)
           /\ (pc = "exited" /\ UpsertInvoked /\ outcome # "Failed") =>
                  remote[settings.id] = payload

\* a silent run without --force that found the record in its pre-check and exited with 1
C28_Witness ==
    /\ PreCheckFound
    /\ ~forceFlag
    /\ pc = "exited"
    /\ exitCode = 1
    /\ remote[settings.id] = before

\* a silent run with --force that found the record and overwrote it unasked
C28_WitnessForce ==
    /\ PreCheckFound
    /\ forceFlag
    /\ outcome = "Updated"
    /\ remote[settings.id] = payload
    /\ remote[settings.id] # before

\* an icon property was evaluated in the current run and raised
IconFailed ==
    \/ lightRes # Unevaluated /\ ~lightRes.ok
    \/ darkRes # Unevaluated /\ ~darkRes.ok

\* C29: icons are resolved only after the existence check and any overwrite confirmation,
\* and before the upsert is sent: if light or dark icon resolution fails, push ends in
\* Failed and the upsert is never invoked, so the remote record is left unchanged.
C29_IconsBetweenCheckAndUpsert ==
    /\ pc \in {"idle", "precheck", "proceed", "check", "confirm"} =>
           lightRes = Unevaluated /\ darkRes = Unevaluated
    /\ lightRes # Unevaluated =>
           /\ outcome # "NotCalled"
           /\ calls # <<>>
           /\ (ExistingTruthy(existing) /\ ~pushForce) => HasCall("confirm_overwrite")
           /\ ~Answered("confirm_overwrite", "no")
    /\ UpsertInvoked =>
           /\ lightRes.ok
           /\ darkRes.ok
           /\ payload.icon_url = lightRes.val
           /\ payload.icon_dark_url = darkRes.val
    /\ IconFailed =>
           /\ outcome = "Failed"
           /\ ~returned
           /\ ~UpsertInvoked
           /\ remote[settings.id] = before

\* an overwrite confirmed, the light icon resolved, the dark icon's download failed: the
\* push ended Failed and the record is the one the run found
C29_Witness ==
    /\ Answered("confirm_overwrite", "yes")
    /\ lightRes.ok
    /\ darkRes # Unevaluated
    /\ ~darkRes.ok
    /\ outcome = "Failed"
    /\ before # NoRecord
    /\ remote[settings.id] = before
    /\ ~UpsertInvoked

-----------------------------------------------------------------------------
(* Properties of the export's icon names, checked under PullSpec *)

\* the env file written by the pull that has just ended
WrittenEnv == disk[InDir(result.id, "env")]

\* C30: after a pull with save, every icon filename that the exported env file assigns to
\* the light-mode and dark-mode icon-filename fields names a file that this export
\* actually wrote in the export directory, so re-assembling from the export never fails
\* with 'icon file not found' (including when the remote record has no icon or an icon
\* could not be decoded).
C30_ExportedIconNamesExist ==
    /\ EnvFileWritten =>
           /\ InDir(result.id, WrittenEnv.glean_datasource_icon_filename_lightmode)
                  \in DOMAIN disk
           /\ InDir(result.id, WrittenEnv.glean_datasource_icon_filename_darkmode)
                  \in DOMAIN disk
    /\ Reassembled =>
           /\ icon_url.err # "Icon file not found"
           /\ icon_dark_url.err # "Icon file not found"

====
